---- MODULE Spec2Model ----
(***************************************************************************)
(* The JSON-encoded-size serializer of vector-common                       *)
(* (lib/vector-common/src/json_encoded_size_of.rs).                        *)
(*                                                                         *)
(* size_of(value) walks a serializable value through the serde protocol    *)
(* against a Serializer {bytes, start_collection} and returns the number   *)
(* of bytes the JSON text of the value occupies.  The model runs one such  *)
(* computation call by call: `input` is the value, `stack` is the call     *)
(* stack of the recursion (what is still to be serialized), and there is   *)
(* one action per entry point of the protocol.                             *)
(*                                                                         *)
(* Text is a sequence of one-character strings.  Integers of 32 and 64     *)
(* bits do not fit the model checker's integers, so every integer is kept  *)
(* as a sign and three limbs of nine decimal digits (most significant      *)
(* first); the comparisons of the code are comparisons of such numbers.    *)
(***************************************************************************)
EXTENDS Integers, Sequences, FiniteSets, TLC

VARIABLES input, serializer, stack, pc, result, last, reference, other

vars == <<input, serializer, stack, pc, result, last, reference, other>>

----------------------------------------------------------------------------
(* Bounds of the model. *)

\* the most elements, entries or fields of one collection
MaxLen == 3
\* the most collections nested inside each other
MaxDepth == 2

----------------------------------------------------------------------------
(* Size constants, lines 4-16. *)

NULL_SIZE == 4
TRUE_SIZE == 4
FALSE_SIZE == 5

BRACKET_SIZE == 1
BRACES_SIZE == 2
BRACE_SIZE == 1

QUOTES_SIZE == 2
COMMA_SIZE == 1
COLON_SIZE == 1

EPOCH_RFC3339 ==
    <<"1","9","7","0","-","0","1","-","0","1","T",
      "0","0",":","0","0",":","0","0",".","0","0","0","Z">>

----------------------------------------------------------------------------
(* Integers: a sign and three limbs, value = +-(a*10^18 + b*10^9 + c). *)

Limb == 10^9

L(a, b, c) == [neg |-> FALSE, mag |-> <<a, b, c>>]
N(a, b, c) == [neg |-> TRUE, mag |-> <<a, b, c>>]

MagLt(m, n) ==
    \/ m[1] < n[1]
    \/ m[1] = n[1] /\ m[2] < n[2]
    \/ m[1] = n[1] /\ m[2] = n[2] /\ m[3] < n[3]

\* the comparison v < literal of the threshold ladders
Lt(x, y) ==
    IF x.neg /\ ~y.neg THEN TRUE
    ELSE IF ~x.neg /\ y.neg THEN FALSE
    ELSE IF x.neg THEN MagLt(y.mag, x.mag)
    ELSE MagLt(x.mag, y.mag)

Le(x, y) == x = y \/ Lt(x, y)

FromInt(n) == IF n < 0 THEN N(0, 0, 0 - n) ELSE L(0, 0, n)

----------------------------------------------------------------------------
(* The Serializer, lines 91-94, and `self.bytes += n`. *)

NewSerializer == [bytes |-> 0, start_collection |-> FALSE]

AddBytes(self, n) == [self EXCEPT !.bytes = @ + n]

----------------------------------------------------------------------------
(* Scalar entry points of impl ser::Serializer, lines 125-426. *)

serialize_bool(self, v) ==
    AddBytes(self, IF v THEN TRUE_SIZE ELSE FALSE_SIZE)

\* serialize_i8 with its first threshold one off: -100 is given three characters
serialize_i8_threshold_slip(self, v) ==
    IF Lt(v, N(0, 0, 100)) THEN AddBytes(self, 4)
    ELSE IF Lt(v, N(0, 0, 9)) THEN AddBytes(self, 3)
    ELSE IF Lt(v, L(0, 0, 0)) THEN AddBytes(self, 2)
    ELSE IF Lt(v, L(0, 0, 10)) THEN AddBytes(self, 1)
    ELSE IF Lt(v, L(0, 0, 100)) THEN AddBytes(self, 2)
    ELSE AddBytes(self, 3)

\* fn serialize_i8, lines 130-147
serialize_i8(self, v) ==
    IF Lt(v, N(0, 0, 99)) THEN AddBytes(self, 4)
    ELSE IF Lt(v, N(0, 0, 9)) THEN AddBytes(self, 3)
    ELSE IF Lt(v, L(0, 0, 0)) THEN AddBytes(self, 2)
    ELSE IF Lt(v, L(0, 0, 10)) THEN AddBytes(self, 1)
    ELSE IF Lt(v, L(0, 0, 100)) THEN AddBytes(self, 2)
    ELSE AddBytes(self, 3)

\* fn serialize_i16, lines 149-174
serialize_i16(self, v) ==
    IF Lt(v, N(0, 0, 9999)) THEN AddBytes(self, 6)
    ELSE IF Lt(v, N(0, 0, 999)) THEN AddBytes(self, 5)
    ELSE IF Lt(v, N(0, 0, 99)) THEN AddBytes(self, 4)
    ELSE IF Lt(v, N(0, 0, 9)) THEN AddBytes(self, 3)
    ELSE IF Lt(v, L(0, 0, 0)) THEN AddBytes(self, 2)
    ELSE IF Lt(v, L(0, 0, 10)) THEN AddBytes(self, 1)
    ELSE IF Lt(v, L(0, 0, 100)) THEN AddBytes(self, 2)
    ELSE IF Lt(v, L(0, 0, 1000)) THEN AddBytes(self, 3)
    ELSE IF Lt(v, L(0, 0, 10000)) THEN AddBytes(self, 4)
    ELSE AddBytes(self, 5)

\* fn serialize_i32, lines 176-221
serialize_i32(self, v) ==
    IF Lt(v, N(0, 0, 999999999)) THEN AddBytes(self, 11)
    ELSE IF Lt(v, N(0, 0, 99999999)) THEN AddBytes(self, 10)
    ELSE IF Lt(v, N(0, 0, 9999999)) THEN AddBytes(self, 9)
    ELSE IF Lt(v, N(0, 0, 999999)) THEN AddBytes(self, 8)
    ELSE IF Lt(v, N(0, 0, 99999)) THEN AddBytes(self, 7)
    ELSE IF Lt(v, N(0, 0, 9999)) THEN AddBytes(self, 6)
    ELSE IF Lt(v, N(0, 0, 999)) THEN AddBytes(self, 5)
    ELSE IF Lt(v, N(0, 0, 99)) THEN AddBytes(self, 4)
    ELSE IF Lt(v, N(0, 0, 9)) THEN AddBytes(self, 3)
    ELSE IF Lt(v, L(0, 0, 0)) THEN AddBytes(self, 2)
    ELSE IF Lt(v, L(0, 0, 10)) THEN AddBytes(self, 1)
    ELSE IF Lt(v, L(0, 0, 100)) THEN AddBytes(self, 2)
    ELSE IF Lt(v, L(0, 0, 1000)) THEN AddBytes(self, 3)
    ELSE IF Lt(v, L(0, 0, 10000)) THEN AddBytes(self, 4)
    ELSE IF Lt(v, L(0, 0, 100000)) THEN AddBytes(self, 5)
    ELSE IF Lt(v, L(0, 0, 1000000)) THEN AddBytes(self, 6)
    ELSE IF Lt(v, L(0, 0, 10000000)) THEN AddBytes(self, 7)
    ELSE IF Lt(v, L(0, 0, 100000000)) THEN AddBytes(self, 8)
    ELSE IF Lt(v, L(0, 1, 0)) THEN AddBytes(self, 9)
    ELSE AddBytes(self, 10)

\* fn serialize_i64, lines 224-266
serialize_i64(self, v) ==
    IF Lt(v, N(0, 999999999, 999999999)) THEN AddBytes(self, 20)
    ELSE IF Lt(v, N(0, 99999999, 999999999)) THEN AddBytes(self, 19)
    ELSE IF Lt(v, N(0, 9999999, 999999999)) THEN AddBytes(self, 18)
    ELSE IF Lt(v, N(0, 999999, 999999999)) THEN AddBytes(self, 17)
    ELSE IF Lt(v, N(0, 99999, 999999999)) THEN AddBytes(self, 16)
    ELSE IF Lt(v, N(0, 9999, 999999999)) THEN AddBytes(self, 15)
    ELSE IF Lt(v, N(0, 999, 999999999)) THEN AddBytes(self, 14)
    ELSE IF Lt(v, N(0, 99, 999999999)) THEN AddBytes(self, 13)
    ELSE IF Lt(v, N(0, 9, 999999999)) THEN AddBytes(self, 12)
    ELSE IF Lt(v, N(0, 0, 999999999)) THEN AddBytes(self, 11)
    ELSE IF Lt(v, N(0, 0, 99999999)) THEN AddBytes(self, 10)
    ELSE IF Lt(v, N(0, 0, 9999999)) THEN AddBytes(self, 9)
    ELSE IF Lt(v, N(0, 0, 999999)) THEN AddBytes(self, 8)
    ELSE IF Lt(v, N(0, 0, 99999)) THEN AddBytes(self, 7)
    ELSE IF Lt(v, N(0, 0, 9999)) THEN AddBytes(self, 6)
    ELSE IF Lt(v, N(0, 0, 999)) THEN AddBytes(self, 5)
    ELSE IF Lt(v, N(0, 0, 99)) THEN AddBytes(self, 4)
    ELSE IF Lt(v, N(0, 0, 9)) THEN AddBytes(self, 3)
    ELSE IF Lt(v, L(0, 0, 0)) THEN AddBytes(self, 2)
    ELSE IF Lt(v, L(0, 0, 10)) THEN AddBytes(self, 1)
    ELSE IF Lt(v, L(0, 0, 100)) THEN AddBytes(self, 2)
    ELSE IF Lt(v, L(0, 0, 1000)) THEN AddBytes(self, 3)
    ELSE IF Lt(v, L(0, 0, 10000)) THEN AddBytes(self, 4)
    ELSE IF Lt(v, L(0, 0, 100000)) THEN AddBytes(self, 5)
    ELSE IF Lt(v, L(0, 0, 1000000)) THEN AddBytes(self, 6)
    ELSE IF Lt(v, L(0, 0, 10000000)) THEN AddBytes(self, 7)
    ELSE IF Lt(v, L(0, 0, 100000000)) THEN AddBytes(self, 8)
    ELSE IF Lt(v, L(0, 1, 0)) THEN AddBytes(self, 9)
    ELSE IF Lt(v, L(0, 10, 0)) THEN AddBytes(self, 10)
    ELSE IF Lt(v, L(0, 100, 0)) THEN AddBytes(self, 11)
    ELSE IF Lt(v, L(0, 1000, 0)) THEN AddBytes(self, 12)
    ELSE IF Lt(v, L(0, 10000, 0)) THEN AddBytes(self, 13)
    ELSE IF Lt(v, L(0, 100000, 0)) THEN AddBytes(self, 14)
    ELSE IF Lt(v, L(0, 1000000, 0)) THEN AddBytes(self, 15)
    ELSE IF Lt(v, L(0, 10000000, 0)) THEN AddBytes(self, 16)
    ELSE IF Lt(v, L(0, 100000000, 0)) THEN AddBytes(self, 17)
    ELSE IF Lt(v, L(1, 0, 0)) THEN AddBytes(self, 18)
    ELSE AddBytes(self, 20)

\* fn serialize_u8, lines 268-279
serialize_u8(self, v) ==
    IF Lt(v, L(0, 0, 10)) THEN AddBytes(self, 1)
    ELSE IF Lt(v, L(0, 0, 100)) THEN AddBytes(self, 2)
    ELSE AddBytes(self, 3)

\* serialize_u16 without its last rung: 10000 and above are given four digits
serialize_u16_missing_rung(self, v) ==
    IF Lt(v, L(0, 0, 10)) THEN AddBytes(self, 1)
    ELSE IF Lt(v, L(0, 0, 100)) THEN AddBytes(self, 2)
    ELSE IF Lt(v, L(0, 0, 1000)) THEN AddBytes(self, 3)
    ELSE AddBytes(self, 4)

\* fn serialize_u16, lines 281-296
serialize_u16(self, v) ==
    IF Lt(v, L(0, 0, 10)) THEN AddBytes(self, 1)
    ELSE IF Lt(v, L(0, 0, 100)) THEN AddBytes(self, 2)
    ELSE IF Lt(v, L(0, 0, 1000)) THEN AddBytes(self, 3)
    ELSE IF Lt(v, L(0, 0, 10000)) THEN AddBytes(self, 4)
    ELSE AddBytes(self, 5)

\* fn serialize_u32, lines 298-323
serialize_u32(self, v) ==
    IF Lt(v, L(0, 0, 10)) THEN AddBytes(self, 1)
    ELSE IF Lt(v, L(0, 0, 100)) THEN AddBytes(self, 2)
    ELSE IF Lt(v, L(0, 0, 1000)) THEN AddBytes(self, 3)
    ELSE IF Lt(v, L(0, 0, 10000)) THEN AddBytes(self, 4)
    ELSE IF Lt(v, L(0, 0, 100000)) THEN AddBytes(self, 5)
    ELSE IF Lt(v, L(0, 0, 1000000)) THEN AddBytes(self, 6)
    ELSE IF Lt(v, L(0, 0, 10000000)) THEN AddBytes(self, 7)
    ELSE IF Lt(v, L(0, 0, 100000000)) THEN AddBytes(self, 8)
    ELSE IF Lt(v, L(0, 1, 0)) THEN AddBytes(self, 9)
    ELSE AddBytes(self, 10)

\* fn serialize_u64, lines 326-350
serialize_u64(self, v) ==
    IF Lt(v, L(0, 0, 10)) THEN AddBytes(self, 1)
    ELSE IF Lt(v, L(0, 0, 100)) THEN AddBytes(self, 2)
    ELSE IF Lt(v, L(0, 0, 1000)) THEN AddBytes(self, 3)
    ELSE IF Lt(v, L(0, 0, 10000)) THEN AddBytes(self, 4)
    ELSE IF Lt(v, L(0, 0, 100000)) THEN AddBytes(self, 5)
    ELSE IF Lt(v, L(0, 0, 1000000)) THEN AddBytes(self, 6)
    ELSE IF Lt(v, L(0, 0, 10000000)) THEN AddBytes(self, 7)
    ELSE IF Lt(v, L(0, 0, 100000000)) THEN AddBytes(self, 8)
    ELSE IF Lt(v, L(0, 1, 0)) THEN AddBytes(self, 9)
    ELSE IF Lt(v, L(0, 10, 0)) THEN AddBytes(self, 10)
    ELSE IF Lt(v, L(0, 100, 0)) THEN AddBytes(self, 11)
    ELSE IF Lt(v, L(0, 1000, 0)) THEN AddBytes(self, 12)
    ELSE IF Lt(v, L(0, 10000, 0)) THEN AddBytes(self, 13)
    ELSE IF Lt(v, L(0, 100000, 0)) THEN AddBytes(self, 14)
    ELSE IF Lt(v, L(0, 1000000, 0)) THEN AddBytes(self, 15)
    ELSE IF Lt(v, L(0, 10000000, 0)) THEN AddBytes(self, 16)
    ELSE IF Lt(v, L(0, 100000000, 0)) THEN AddBytes(self, 17)
    ELSE IF Lt(v, L(1, 0, 0)) THEN AddBytes(self, 18)
    ELSE IF Lt(v, L(10, 0, 0)) THEN AddBytes(self, 19)
    ELSE AddBytes(self, 20)

\* fn serialize_f32 / serialize_f64, lines 357-374: the length of the text the
\* shortest-round-trip formatter writes; a float carries that text
serialize_f32(self, v) == AddBytes(self, Len(v))
serialize_f64(self, v) == AddBytes(self, Len(v))

\* char::len_utf8 of a code point
len_utf8(c) ==
    IF c < 128 THEN 1
    ELSE IF c < 2048 THEN 2
    ELSE IF c < 65536 THEN 3
    ELSE 4

\* fn serialize_char, lines 377-380
serialize_char(self, v) == AddBytes(self, QUOTES_SIZE + len_utf8(v))

\* a quote, a backslash and a newline counted with the backslash that
\* escapes them
serialize_str_escapes(self, v) ==
    AddBytes(self,
        QUOTES_SIZE + Len(v)
        + Cardinality({i \in 1..Len(v) : v[i] \in {"\"", "\\", "\n"}}))

\* fn serialize_str, lines 383-386 (no escaping)
serialize_str(self, v) == AddBytes(self, QUOTES_SIZE + Len(v))

\* fn serialize_bytes, lines 389-392
serialize_bytes(self, v) == AddBytes(self, QUOTES_SIZE + Len(v))

\* fn serialize_unit, lines 408-411
serialize_unit(self) == AddBytes(self, NULL_SIZE)

\* fn serialize_none, lines 395-397
serialize_none(self) == serialize_unit(self)

\* serialize_some counting the present value as an absent one as well
serialize_some_counts_null(self) == AddBytes(self, NULL_SIZE)

\* fn serialize_some, lines 400-405: what it does before `value.serialize(self)`
serialize_some(self) == self

\* fn serialize_unit_struct, lines 414-416
serialize_unit_struct(self) == serialize_unit(self)

\* fn serialize_unit_variant, lines 419-426
serialize_unit_variant(self, variant) == serialize_str(self, variant)

\* fn serialize_newtype_struct, lines 429-434: before `value.serialize(self)`
serialize_newtype_struct(self) == self

\* one brace charged for the two of the variant
serialize_newtype_variant_one_brace(self, variant) ==
    serialize_str(AddBytes(self, BRACE_SIZE + COLON_SIZE), variant)

\* fn serialize_newtype_variant, lines 436-451: before `value.serialize(self)`
serialize_newtype_variant(self, variant) ==
    serialize_str(AddBytes(self, BRACES_SIZE + COLON_SIZE), variant)

----------------------------------------------------------------------------
(* Collection entry points of impl ser::Serializer, lines 453-509. *)

\* the cursor left as the call found it
serialize_seq_cursor_not_set(self) == AddBytes(self, BRACKET_SIZE)

serialize_seq(self) ==
    AddBytes([self EXCEPT !.start_collection = TRUE], BRACKET_SIZE)

serialize_tuple(self) == serialize_seq(self)

serialize_tuple_struct(self) == serialize_seq(self)

\* serialize_tuple_variant charging the closing brace as well, which
\* SerializeTupleVariant::end charges again
serialize_tuple_variant_closing_brace(self, variant) ==
    LET counted == serialize_str(
            AddBytes(self, BRACES_SIZE + COLON_SIZE + BRACKET_SIZE), variant)
    IN  [counted EXCEPT !.start_collection = TRUE]

serialize_tuple_variant(self, variant) ==
    LET counted == serialize_str(
            AddBytes(self, BRACE_SIZE + COLON_SIZE + BRACKET_SIZE), variant)
    IN  [counted EXCEPT !.start_collection = TRUE]

serialize_map(self) ==
    AddBytes([self EXCEPT !.start_collection = TRUE], BRACE_SIZE)

serialize_struct(self) == serialize_map(self)

\* one closing brace charged with the opening ones, which
\* SerializeStructVariant::end charges again
serialize_struct_variant_closing_brace(self, variant) ==
    LET counted == serialize_str(
            AddBytes(self, BRACES_SIZE + COLON_SIZE + BRACE_SIZE), variant)
    IN  [counted EXCEPT !.start_collection = TRUE]

serialize_struct_variant(self, variant) ==
    LET counted == serialize_str(
            AddBytes(self, BRACE_SIZE + COLON_SIZE + BRACE_SIZE), variant)
    IN  [counted EXCEPT !.start_collection = TRUE]

----------------------------------------------------------------------------
(* impl SerializeSeq / Tuple / TupleStruct / TupleVariant / Map / Struct /  *)
(* StructVariant, lines 512-704.  An element, key, value or field call is   *)
(* given up to its `value.serialize(&mut **self)`, which is the next call.  *)

\* SerializeSeq::serialize_element charging a comma before every element
SerializeSeq_serialize_element_always_comma(self) ==
    [AddBytes(self, COMMA_SIZE) EXCEPT !.start_collection = FALSE]

SerializeSeq_serialize_element(self) ==
    LET comma == IF ~self.start_collection
                 THEN AddBytes(self, COMMA_SIZE) ELSE self
    IN  [comma EXCEPT !.start_collection = FALSE]

\* the cursor left as the collection's last call set it
SerializeSeq_end_leaves_cursor(self) == AddBytes(self, BRACKET_SIZE)

SerializeSeq_end(self) ==
    [AddBytes(self, BRACKET_SIZE) EXCEPT !.start_collection = FALSE]

SerializeTuple_serialize_element(self) ==
    LET comma == IF ~self.start_collection
                 THEN AddBytes(self, COMMA_SIZE) ELSE self
    IN  [comma EXCEPT !.start_collection = FALSE]

SerializeTuple_end(self) ==
    [AddBytes(self, BRACKET_SIZE) EXCEPT !.start_collection = FALSE]

SerializeTupleStruct_serialize_field(self) ==
    LET comma == IF ~self.start_collection
                 THEN AddBytes(self, COMMA_SIZE) ELSE self
    IN  [comma EXCEPT !.start_collection = FALSE]

SerializeTupleStruct_end(self) ==
    [AddBytes(self, BRACKET_SIZE) EXCEPT !.start_collection = FALSE]

SerializeTupleVariant_serialize_field(self) ==
    LET comma == IF ~self.start_collection
                 THEN AddBytes(self, COMMA_SIZE) ELSE self
    IN  [comma EXCEPT !.start_collection = FALSE]

\* the closing bracket alone, the variant's closing brace left out
SerializeTupleVariant_end_bracket_only(self) ==
    [AddBytes(self, BRACKET_SIZE) EXCEPT !.start_collection = FALSE]

SerializeTupleVariant_end(self) ==
    [AddBytes(self, BRACKET_SIZE + BRACE_SIZE)
        EXCEPT !.start_collection = FALSE]

\* the comma of a later entry assigned to the counter, not added to it
SerializeMap_serialize_key_assigns_comma(self) ==
    IF self.start_collection
    THEN [self EXCEPT !.start_collection = FALSE]
    ELSE [self EXCEPT !.bytes = COMMA_SIZE]

SerializeMap_serialize_key(self) ==
    LET comma == IF ~self.start_collection
                 THEN AddBytes(self, COMMA_SIZE) ELSE self
    IN  [comma EXCEPT !.start_collection = FALSE]

\* the cursor set by the value call
SerializeMap_serialize_value_sets_cursor(self) ==
    [AddBytes(self, COLON_SIZE) EXCEPT !.start_collection = TRUE]

SerializeMap_serialize_value(self) == AddBytes(self, COLON_SIZE)

SerializeMap_end(self) ==
    AddBytes([self EXCEPT !.start_collection = FALSE], BRACE_SIZE)

\* SerializeStruct::serialize_field without the colon
SerializeStruct_serialize_field_no_colon(self, key) ==
    LET comma == IF ~self.start_collection
                 THEN AddBytes(self, COMMA_SIZE) ELSE self
        first == [comma EXCEPT !.start_collection = FALSE]
    IN  serialize_str(first, key)

\* `key.serialize(&mut **self)` of a &'static str is serialize_str(key)
SerializeStruct_serialize_field(self, key) ==
    LET comma == IF ~self.start_collection
                 THEN AddBytes(self, COMMA_SIZE) ELSE self
        first == [comma EXCEPT !.start_collection = FALSE]
    IN  AddBytes(serialize_str(first, key), COLON_SIZE)

\* the closing brace taken from the counter, not added to it
SerializeStruct_end_subtracts(self) ==
    [self EXCEPT !.bytes = @ - BRACE_SIZE, !.start_collection = FALSE]

SerializeStruct_end(self) ==
    AddBytes([self EXCEPT !.start_collection = FALSE], BRACE_SIZE)

SerializeStructVariant_serialize_field(self, key) ==
    LET comma == IF ~self.start_collection
                 THEN AddBytes(self, COMMA_SIZE) ELSE self
        first == [comma EXCEPT !.start_collection = FALSE]
    IN  AddBytes(serialize_str(first, key), COLON_SIZE)

SerializeStructVariant_end(self) ==
    AddBytes([self EXCEPT !.start_collection = FALSE],
             BRACE_SIZE + BRACE_SIZE)

----------------------------------------------------------------------------
(* The values size_of is called on: what a `T: Serialize` asks of the       *)
(* serializer (one shape per entry point), and the generic Value behind     *)
(* JsonEncodedValue.                                                        *)

Bool(b) == [kind |-> "bool", b |-> b]
I8(v) == [kind |-> "i8", v |-> v]
I16(v) == [kind |-> "i16", v |-> v]
I32(v) == [kind |-> "i32", v |-> v]
I64(v) == [kind |-> "i64", v |-> v]
U8(v) == [kind |-> "u8", v |-> v]
U16(v) == [kind |-> "u16", v |-> v]
U32(v) == [kind |-> "u32", v |-> v]
U64(v) == [kind |-> "u64", v |-> v]
F32(text) == [kind |-> "f32", text |-> text]
F64(text) == [kind |-> "f64", text |-> text]
Char(c) == [kind |-> "char", c |-> c]
Str(s) == [kind |-> "str", s |-> s]
Bytes(s) == [kind |-> "bytes", s |-> s]
Unit == [kind |-> "unit"]
None == [kind |-> "none"]
Some(x) == [kind |-> "some", inner |-> x]
UnitStruct == [kind |-> "unit_struct"]
UnitVariant(variant) == [kind |-> "unit_variant", variant |-> variant]
NewtypeStruct(x) == [kind |-> "newtype_struct", inner |-> x]
NewtypeVariant(variant, x) ==
    [kind |-> "newtype_variant", variant |-> variant, inner |-> x]
SeqOf(elems) == [kind |-> "seq", elems |-> elems]
Tuple(elems) == [kind |-> "tuple", elems |-> elems]
TupleStruct(elems) == [kind |-> "tuple_struct", elems |-> elems]
TupleVariant(variant, elems) ==
    [kind |-> "tuple_variant", variant |-> variant, elems |-> elems]
\* entries: a sequence of [key, value]
Map(entries) == [kind |-> "map", entries |-> entries]
\* fields: a sequence of [name, value]
Struct(fields) == [kind |-> "struct", fields |-> fields]
StructVariant(variant, fields) ==
    [kind |-> "struct_variant", variant |-> variant, fields |-> fields]
JsonEncodedValue(value) == [kind |-> "JsonEncodedValue", value |-> value]

\* the text of a timestamp, as the default serialization of Value writes it
DigitChars == <<"0", "1", "2", "3", "4", "5", "6", "7", "8", "9">>

\* the n decimal digits of x, most significant first
DigitsOf(x, n) == [i \in 1..n |-> DigitChars[((x \div 10^(n - i)) % 10) + 1]]

\* a timestamp in RFC 3339 with the fewest of 0, 3, 6 or 9 fraction digits
\* that keep its precision, UTC written as Z
Rfc3339(secs, nanos) ==
    <<"1", "9", "7", "0", "-", "0", "1", "-", "0", "1", "T">>
    \o DigitsOf(secs \div 3600, 2) \o <<":">>
    \o DigitsOf((secs \div 60) % 60, 2) \o <<":">>
    \o DigitsOf(secs % 60, 2)
    \o (IF nanos = 0 THEN <<>>
        ELSE IF nanos % 1000000 = 0
        THEN <<".">> \o DigitsOf(nanos \div 1000000, 3)
        ELSE IF nanos % 1000 = 0
        THEN <<".">> \o DigitsOf(nanos \div 1000, 6)
        ELSE <<".">> \o DigitsOf(nanos, 9))
    \o <<"Z">>

\* the generic Value
VNull == [t |-> "Null"]
VBoolean(b) == [t |-> "Boolean", b |-> b]
VInteger(v) == [t |-> "Integer", v |-> v]
VFloat(text) == [t |-> "Float", text |-> text]
VBytes(s) == [t |-> "Bytes", s |-> s]
VTimestamp(secs, nanos) == [t |-> "Timestamp", secs |-> secs, nanos |-> nanos]
VArray(elems) == [t |-> "Array", elems |-> elems]
\* entries: a sequence of [key, value], the key a string
VObject(entries) == [t |-> "Object", entries |-> entries]

\* the default serialization of the scalar Value variants
Value_serialize(value) ==
    CASE value.t = "Null" -> None
      [] value.t = "Boolean" -> Bool(value.b)
      [] value.t = "Integer" -> I64(value.v)
      [] value.t = "Float" -> F64(value.text)

\* JsonEncodedValue without its Bytes arm: a byte buffer serialized the way
\* the protocol serializes a slice of u8 by default, as a sequence
JsonEncodedValue_serialize_bytes_as_seq(value) ==
    CASE value.t = "Bytes" ->
            SeqOf([i \in 1..Len(value.s) |-> U8(L(0, 0, 120))])
      [] value.t = "Timestamp" -> Str(EPOCH_RFC3339)
      [] value.t = "Object" ->
            Map([i \in 1..Len(value.entries) |->
                    [key |-> Str(value.entries[i].key),
                     value |-> JsonEncodedValue(value.entries[i].value)]])
      [] value.t = "Array" ->
            SeqOf([i \in 1..Len(value.elems) |->
                    JsonEncodedValue(value.elems[i])])
      [] OTHER -> Value_serialize(value)

\* JsonEncodedValue without its Timestamp arm: a timestamp serialized as
\* the default serialization of Value writes it, at its own precision
JsonEncodedValue_serialize_own_precision(value) ==
    CASE value.t = "Bytes" -> Bytes(value.s)
      [] value.t = "Timestamp" -> Str(Rfc3339(value.secs, value.nanos))
      [] value.t = "Object" ->
            Map([i \in 1..Len(value.entries) |->
                    [key |-> Str(value.entries[i].key),
                     value |-> JsonEncodedValue(value.entries[i].value)]])
      [] value.t = "Array" ->
            SeqOf([i \in 1..Len(value.elems) |->
                    JsonEncodedValue(value.elems[i])])
      [] OTHER -> Value_serialize(value)

\* impl Serialize for JsonEncodedValue, lines 20-57: the call it makes
JsonEncodedValue_serialize(value) ==
    CASE value.t = "Bytes" -> Bytes(value.s)
      [] value.t = "Timestamp" -> Str(EPOCH_RFC3339)
      [] value.t = "Object" ->
            Map([i \in 1..Len(value.entries) |->
                    [key |-> Str(value.entries[i].key),
                     value |-> JsonEncodedValue(value.entries[i].value)]])
      [] value.t = "Array" ->
            SeqOf([i \in 1..Len(value.elems) |->
                    JsonEncodedValue(value.elems[i])])
      [] OTHER -> Value_serialize(value)

\* `value.serialize(serializer)`: the entry point a value calls
Dispatch(node) ==
    IF node.kind = "JsonEncodedValue"
    THEN JsonEncodedValue_serialize(node.value)
    ELSE node

----------------------------------------------------------------------------
(* `value.serialize(&mut serializer)` run to its return: the serializer     *)
(* after the whole call tree of one value.                                  *)

RECURSIVE Serialize(_, _)
RECURSIVE SerializeElements(_, _, _)
RECURSIVE SerializeEntries(_, _)
RECURSIVE SerializeFields(_, _, _)

ElementCall(kind, self) ==
    CASE kind = "seq" -> SerializeSeq_serialize_element(self)
      [] kind = "tuple" -> SerializeTuple_serialize_element(self)
      [] kind = "tuple_struct" -> SerializeTupleStruct_serialize_field(self)
      [] kind = "tuple_variant" -> SerializeTupleVariant_serialize_field(self)

FieldCall(kind, self, key) ==
    CASE kind = "struct" -> SerializeStruct_serialize_field(self, key)
      [] kind = "struct_variant" ->
            SerializeStructVariant_serialize_field(self, key)

SerializeElements(self, kind, rest) ==
    IF rest = <<>> THEN self
    ELSE SerializeElements(
            Serialize(ElementCall(kind, self), Head(rest)), kind, Tail(rest))

SerializeEntries(self, rest) ==
    IF rest = <<>> THEN self
    ELSE LET key == Serialize(SerializeMap_serialize_key(self),
                              Head(rest).key)
             value == Serialize(SerializeMap_serialize_value(key),
                                Head(rest).value)
         IN  SerializeEntries(value, Tail(rest))

SerializeFields(self, kind, rest) ==
    IF rest = <<>> THEN self
    ELSE SerializeFields(
            Serialize(FieldCall(kind, self, Head(rest).name),
                      Head(rest).value),
            kind, Tail(rest))

Serialize(self, node) ==
    LET d == Dispatch(node) IN
    CASE d.kind = "bool" -> serialize_bool(self, d.b)
      [] d.kind = "i8" -> serialize_i8(self, d.v)
      [] d.kind = "i16" -> serialize_i16(self, d.v)
      [] d.kind = "i32" -> serialize_i32(self, d.v)
      [] d.kind = "i64" -> serialize_i64(self, d.v)
      [] d.kind = "u8" -> serialize_u8(self, d.v)
      [] d.kind = "u16" -> serialize_u16(self, d.v)
      [] d.kind = "u32" -> serialize_u32(self, d.v)
      [] d.kind = "u64" -> serialize_u64(self, d.v)
      [] d.kind = "f32" -> serialize_f32(self, d.text)
      [] d.kind = "f64" -> serialize_f64(self, d.text)
      [] d.kind = "char" -> serialize_char(self, d.c)
      [] d.kind = "str" -> serialize_str(self, d.s)
      [] d.kind = "bytes" -> serialize_bytes(self, d.s)
      [] d.kind = "unit" -> serialize_unit(self)
      [] d.kind = "none" -> serialize_none(self)
      [] d.kind = "some" -> Serialize(serialize_some(self), d.inner)
      [] d.kind = "unit_struct" -> serialize_unit_struct(self)
      [] d.kind = "unit_variant" -> serialize_unit_variant(self, d.variant)
      [] d.kind = "newtype_struct" ->
            Serialize(serialize_newtype_struct(self), d.inner)
      [] d.kind = "newtype_variant" ->
            Serialize(serialize_newtype_variant(self, d.variant), d.inner)
      [] d.kind = "seq" ->
            SerializeSeq_end(
                SerializeElements(serialize_seq(self), "seq", d.elems))
      [] d.kind = "tuple" ->
            SerializeTuple_end(
                SerializeElements(serialize_tuple(self), "tuple", d.elems))
      [] d.kind = "tuple_struct" ->
            SerializeTupleStruct_end(
                SerializeElements(serialize_tuple_struct(self),
                                  "tuple_struct", d.elems))
      [] d.kind = "tuple_variant" ->
            SerializeTupleVariant_end(
                SerializeElements(serialize_tuple_variant(self, d.variant),
                                  "tuple_variant", d.elems))
      [] d.kind = "map" ->
            SerializeMap_end(SerializeEntries(serialize_map(self), d.entries))
      [] d.kind = "struct" ->
            SerializeStruct_end(
                SerializeFields(serialize_struct(self), "struct", d.fields))
      [] d.kind = "struct_variant" ->
            SerializeStructVariant_end(
                SerializeFields(serialize_struct_variant(self, d.variant),
                                "struct_variant", d.fields))

\* fn size_of, lines 101-111, as one function of the value
size_of(value) == Serialize(NewSerializer, value).bytes

----------------------------------------------------------------------------
(* The inputs of the model: integers at and around every power of ten and   *)
(* at the ends of every width, every 8-bit integer, the other scalars, and  *)
(* collections, variants and Values of at most MaxLen elements nested at    *)
(* most MaxDepth deep.                                                      *)

Zero == L(0, 0, 0)

Negate(x) == IF x.mag = <<0, 0, 0>> THEN x ELSE [x EXCEPT !.neg = ~@]

\* 10^k, 0 <= k <= 19
Pow10(k) ==
    IF k < 9 THEN L(0, 0, 10^k)
    ELSE IF k < 18 THEN L(0, 10^(k - 9), 0)
    ELSE L(10^(k - 18), 0, 0)

\* 10^k - 1, 1 <= k <= 19
Nines(k) ==
    IF k <= 9 THEN L(0, 0, 10^k - 1)
    ELSE IF k <= 18 THEN L(0, 10^(k - 9) - 1, Limb - 1)
    ELSE L(10^(k - 18) - 1, Limb - 1, Limb - 1)

\* 10^k + 1
AbovePow10(k) == [Pow10(k) EXCEPT !.mag[3] = @ + 1]

I8_MIN == N(0, 0, 128)
I8_MAX == L(0, 0, 127)
U8_MAX == L(0, 0, 255)
I16_MIN == N(0, 0, 32768)
I16_MAX == L(0, 0, 32767)
U16_MAX == L(0, 0, 65535)
I32_MIN == N(0, 2, 147483648)
I32_MAX == L(0, 2, 147483647)
U32_MAX == L(0, 4, 294967295)
I64_MIN == N(9, 223372036, 854775808)
I64_MAX == L(9, 223372036, 854775807)
U64_MAX == L(18, 446744073, 709551615)

PositiveProbes ==
    {Pow10(k) : k \in 0..19} \cup {Nines(k) : k \in 1..19}
    \cup {AbovePow10(k) : k \in 0..19}
    \cup {I8_MAX, U8_MAX, I16_MAX, U16_MAX, I32_MAX, U32_MAX, I64_MAX, U64_MAX}
    \cup {L(0, 0, 126), L(0, 0, 254), L(0, 0, 32766), L(0, 0, 65534),
          L(0, 2, 147483646), L(0, 4, 294967294),
          L(9, 223372036, 854775806), L(18, 446744073, 709551614),
          L(0, 0, 5), L(0, 0, 42), L(0, 0, 12345), L(0, 1, 234567890),
          L(0, 123456789, 12345678), L(5, 0, 0), L(9, 0, 0),
          L(2, 500000000, 1), L(12, 345678901, 234567890)}

NegativeProbes ==
    {Negate(v) : v \in PositiveProbes}
    \cup {I8_MIN, I16_MIN, I32_MIN, I64_MIN}
    \cup {N(0, 0, 129), N(0, 0, 32769), N(0, 2, 147483649)}

Probes == {Zero} \cup PositiveProbes \cup NegativeProbes

Between(lo, hi) == {v \in Probes : Le(lo, v) /\ Le(v, hi)}

I8Values == {FromInt(n) : n \in (0 - 128)..127}
U8Values == {FromInt(n) : n \in 0..255}
I16Values == Between(I16_MIN, I16_MAX)
U16Values == Between(Zero, U16_MAX)
I32Values == Between(I32_MIN, I32_MAX)
U32Values == Between(Zero, U32_MAX)
I64Values == Between(I64_MIN, I64_MAX)
U64Values == Between(Zero, U64_MAX)

IntegerInputs ==
    {I8(v) : v \in I8Values} \cup {U8(v) : v \in U8Values}
    \cup {I16(v) : v \in I16Values} \cup {U16(v) : v \in U16Values}
    \cup {I32(v) : v \in I32Values} \cup {U32(v) : v \in U32Values}
    \cup {I64(v) : v \in I64Values} \cup {U64(v) : v \in U64Values}

\* the text a shortest-round-trip formatter writes for a few finite floats
FloatTexts ==
    {<<"0", ".", "0">>, <<"1", ".", "5">>, <<"-", "0", ".", "1">>,
     <<"1", "e", "2", "1">>, <<"1", ".", "5", "e", "-", "7">>}

\* strings: plain ones, and ones with a character JSON escapes
Texts ==
    {<<>>, <<"a">>, <<"a", "b">>, <<"h", "e", "l", "l", "o">>,
     <<"\"">>, <<"a", "\\", "b">>, <<"\n">>}

OtherScalarInputs ==
    {Bool(TRUE), Bool(FALSE), Unit, None, UnitStruct}
    \cup {F32(t) : t \in FloatTexts} \cup {F64(t) : t \in FloatTexts}
    \cup {Char(c) : c \in {97, 233, 8364, 128512}}
    \cup {Str(s) : s \in Texts} \cup {Bytes(s) : s \in Texts}

\* names of variants, and the name of the i-th field or key
Variants == {<<"U", "n", "i", "t">>, <<"V">>}
Name(i) == [j \in 1..i |-> "k"]

Leaves == {U32(L(0, 0, 1)), Str(<<"a">>), None, I64(Negate(Pow10(3)))}
Filler == U32(L(0, 0, 1))

\* every sequence of at most n members of S
RECURSIVE SeqsUpTo(_, _)
SeqsUpTo(S, n) ==
    IF n = 0 THEN {<<>>}
    ELSE LET shorter == SeqsUpTo(S, n - 1)
         IN  shorter \cup {Append(s, x) : s \in shorter, x \in S}

\* `values` as the values of the entries or fields named Name(1), Name(2), ..
Entries(values) ==
    [i \in 1..Len(values) |-> [key |-> Str(Name(i)), value |-> values[i]]]
Fields(values) ==
    [i \in 1..Len(values) |-> [name |-> Name(i), value |-> values[i]]]

\* the collections of every kind holding `values`
Collections(values) ==
    {SeqOf(values), Tuple(values), TupleStruct(values),
     Map(Entries(values)), Struct(Fields(values))}
    \cup {TupleVariant(t, values) : t \in Variants}
    \cup {StructVariant(t, Fields(values)) : t \in Variants}

\* the values that hold exactly `x`
Wrappers(x) ==
    {Some(x), NewtypeStruct(x)} \cup {NewtypeVariant(t, x) : t \in Variants}

\* n elements, the p-th being x and the others the filler
Around(x, n, p, filler) == [i \in 1..n |-> IF i = p THEN x ELSE filler]

FlatInputs ==
    UNION {Collections(values) : values \in SeqsUpTo(Leaves, MaxLen)}
    \cup UNION {Wrappers(x) : x \in Leaves}
    \cup {UnitVariant(t) : t \in Variants}

\* the kinds of collection with distinct code, holding `values`
Nesting(values) ==
    {SeqOf(values), Map(Entries(values)), Struct(Fields(values)),
     TupleVariant(<<"V">>, values), StructVariant(<<"V">>, Fields(values))}

\* the positions p of a collection of n elements, n >= 1
Positions == {q \in (1..MaxLen) \X (1..MaxLen) : q[2] <= q[1]}

\* a nested element alone, first of two or last of two
NarrowPositions == {<<1, 1>>, <<2, 1>>, <<2, 2>>}

\* collections of n fillers, n = 0 .. MaxLen
Level1 == UNION {Nesting(Around(Filler, n, 0, Filler)) : n \in 0..MaxLen}

\* collections nested two deep: one nested element, at every position of
\* every length, in every kind of collection and wrapper
Level2 ==
    UNION {Nesting(Around(x, q[1], q[2], Filler)) :
                x \in Level1, q \in Positions}
    \cup {Some(x) : x \in Level1}
    \cup {NewtypeVariant(<<"V">>, x) : x \in Level1}

\* collections nested exactly d deep, each level holding the next alone,
\* first of two or last of two
RECURSIVE DeepAt(_)
DeepAt(d) ==
    IF d = 1 THEN Level1
    ELSE UNION {LET values == Around(x, q[1], q[2], Filler)
                IN  {SeqOf(values), Map(Entries(values)),
                     StructVariant(<<"V">>, Fields(values))} :
                    x \in DeepAt(d - 1), q \in NarrowPositions}
         \cup {Some(x) : x \in DeepAt(d - 1)}

NestedInputs ==
    (IF MaxDepth >= 2 THEN Level2 ELSE {})
    \cup UNION {DeepAt(d) : d \in 3..MaxDepth}

\* the values of the tests test_struct and test_enum, lines 708-749
test_struct ==
    Struct(<<[name |-> <<"i", "n", "t">>, value |-> U32(L(0, 0, 1))],
             [name |-> <<"s", "e", "q">>,
              value |-> SeqOf(<<Str(<<"a">>), Str(<<"b">>)>>)]>>)
test_enum_Unit == UnitVariant(<<"U", "n", "i", "t">>)
test_enum_Newtype ==
    NewtypeVariant(<<"N", "e", "w", "t", "y", "p", "e">>, U32(L(0, 0, 1)))
test_enum_Tuple ==
    TupleVariant(<<"T", "u", "p", "l", "e">>,
                 <<U32(L(0, 0, 1)), U32(L(0, 0, 2))>>)
test_enum_Struct ==
    StructVariant(<<"S", "t", "r", "u", "c", "t">>,
                  <<[name |-> <<"a">>, value |-> U32(L(0, 0, 1))]>>)

\* the sequences [1] and [1,2]
seq_of_1 == SeqOf(<<U32(L(0, 0, 1))>>)
seq_of_1_2 == SeqOf(<<U32(L(0, 0, 1)), U32(L(0, 0, 2))>>)

TestInputs ==
    {test_struct, test_enum_Unit, test_enum_Newtype, test_enum_Tuple,
     test_enum_Struct, seq_of_1, seq_of_1_2}

\* generic Values: scalars, byte buffers, timestamps of every precision,
\* and arrays and objects of them
ValueLeaves ==
    {VNull, VBoolean(TRUE), VBoolean(FALSE), VFloat(<<"1", ".", "5">>)}
    \cup {VInteger(v) : v \in {Zero, L(0, 0, 1), N(0, 0, 10), Nines(18),
                                Pow10(18), I64_MAX, I64_MIN}}
    \cup {VBytes(s) : s \in Texts}
    \cup {VTimestamp(secs, nanos) :
            secs \in {0, 86399},
            nanos \in {0, 123000000, 123456000, 123456789}}

ValueFillers == {VInteger(L(0, 0, 1)), VBytes(<<"x", "y">>)}

ValueElements ==
    {VNull, VInteger(L(0, 0, 7)), VBytes(<<"x", "y">>),
     VTimestamp(0, 123000000), VTimestamp(86399, 123456789)}

VEntries(values) ==
    [i \in 1..Len(values) |-> [key |-> Name(i), value |-> values[i]]]

VCollections(values) == {VArray(values), VObject(VEntries(values))}

FlatValues ==
    UNION {VCollections(values) : values \in SeqsUpTo(ValueElements, MaxLen)}

\* arrays and objects of n equal elements, n = 0 .. MaxLen
ValueLevel1 ==
    UNION {VCollections(Around(x, n, 0, x)) :
                x \in ValueElements, n \in 0..MaxLen}

\* Values nested two deep: one nested element, at every position of every
\* length
ValueLevel2 ==
    UNION {VCollections(Around(x, q[1], q[2], f)) :
                x \in ValueLevel1, q \in Positions, f \in ValueFillers}

\* Values nested exactly d deep, each level holding the next alone, first
\* of two or last of two
RECURSIVE DeepValuesAt(_)
DeepValuesAt(d) ==
    IF d = 1 THEN ValueLevel1
    ELSE UNION {VCollections(Around(x, q[1], q[2], VBytes(<<"x", "y">>))) :
                    x \in DeepValuesAt(d - 1), q \in NarrowPositions}

ValueInputs ==
    {JsonEncodedValue(v) :
        v \in ValueLeaves \cup FlatValues
               \cup (IF MaxDepth >= 2 THEN ValueLevel2 ELSE {})
               \cup UNION {DeepValuesAt(d) : d \in 3..MaxDepth}}

\* maps with a key that is not a string, alone, before and after an entry
\* with a string key
NonStringKeys == {U32(L(0, 0, 1)), I64(Negate(Pow10(3))), Bool(TRUE), None}

NonStringKeyMaps ==
    UNION {{Map(<<[key |-> k, value |-> v]>>),
            Map(<<[key |-> k, value |-> v],
                  [key |-> Str(Name(2)), value |-> Filler]>>),
            Map(<<[key |-> Str(Name(1)), value |-> Filler],
                  [key |-> k, value |-> v]>>)} :
                k \in NonStringKeys, v \in Leaves \cup {seq_of_1_2}}

Inputs ==
    IntegerInputs \cup OtherScalarInputs \cup FlatInputs \cup NestedInputs
    \cup TestInputs \cup ValueInputs \cup NonStringKeyMaps

----------------------------------------------------------------------------
(* The reference: the JSON text of a value, character by character. *)

RECURSIVE StripZeros(_)
StripZeros(s) ==
    IF Len(s) > 1 /\ Head(s) = "0" THEN StripZeros(Tail(s)) ELSE s

\* the canonical decimal form: no leading zeros, no plus sign, a minus sign
\* for negatives
Decimal(v) ==
    (IF v.neg THEN <<"-">> ELSE <<>>)
    \o StripZeros(DigitsOf(v.mag[1], 9) \o DigitsOf(v.mag[2], 9)
                  \o DigitsOf(v.mag[3], 9))

NeedsEscape(c) == c \in {"\"", "\\", "\n"}

EscapeChar(c) ==
    IF c = "\n" THEN <<"\\", "n">>
    ELSE IF NeedsEscape(c) THEN <<"\\", c>>
    ELSE <<c>>

RECURSIVE Escape(_)
Escape(s) ==
    IF s = <<>> THEN <<>> ELSE EscapeChar(Head(s)) \o Escape(Tail(s))

Quoted(s) == <<"\"">> \o Escape(s) \o <<"\"">>

\* the members of a sequence of texts, separated by commas
RECURSIVE Joined(_)
Joined(texts) ==
    IF texts = <<>> THEN <<>>
    ELSE IF Len(texts) = 1 THEN Head(texts)
    ELSE Head(texts) \o <<",">> \o Joined(Tail(texts))

\* the JSON text of a generic Value
RECURSIVE ValueJson(_)
ValueJson(value) ==
    CASE value.t = "Null" -> <<"n", "u", "l", "l">>
      [] value.t = "Boolean" ->
            IF value.b THEN <<"t", "r", "u", "e">>
            ELSE <<"f", "a", "l", "s", "e">>
      [] value.t = "Integer" -> Decimal(value.v)
      [] value.t = "Float" -> value.text
      [] value.t = "Bytes" -> Quoted(value.s)
      [] value.t = "Timestamp" -> Quoted(Rfc3339(value.secs, value.nanos))
      [] value.t = "Array" ->
            <<"[">>
            \o Joined([i \in 1..Len(value.elems) |->
                            ValueJson(value.elems[i])])
            \o <<"]">>
      [] value.t = "Object" ->
            <<"{">>
            \o Joined([i \in 1..Len(value.entries) |->
                            Quoted(value.entries[i].key) \o <<":">>
                            \o ValueJson(value.entries[i].value)])
            \o <<"}">>

\* the JSON text of a value of the serialization protocol, variants
\* externally tagged
RECURSIVE Json(_)
Json(node) ==
    CASE node.kind = "JsonEncodedValue" -> ValueJson(node.value)
      [] node.kind = "bool" ->
            IF node.b THEN <<"t", "r", "u", "e">>
            ELSE <<"f", "a", "l", "s", "e">>
      [] node.kind \in {"i8", "i16", "i32", "i64", "u8", "u16", "u32", "u64"}
            -> Decimal(node.v)
      [] node.kind \in {"f32", "f64"} -> node.text
      [] node.kind = "str" -> Quoted(node.s)
      [] node.kind \in {"unit", "none", "unit_struct"} ->
            <<"n", "u", "l", "l">>
      [] node.kind \in {"some", "newtype_struct"} -> Json(node.inner)
      [] node.kind = "unit_variant" -> Quoted(node.variant)
      [] node.kind = "newtype_variant" ->
            <<"{">> \o Quoted(node.variant) \o <<":">> \o Json(node.inner)
            \o <<"}">>
      [] node.kind \in {"seq", "tuple", "tuple_struct"} ->
            <<"[">>
            \o Joined([i \in 1..Len(node.elems) |-> Json(node.elems[i])])
            \o <<"]">>
      [] node.kind = "tuple_variant" ->
            <<"{">> \o Quoted(node.variant) \o <<":", "[">>
            \o Joined([i \in 1..Len(node.elems) |-> Json(node.elems[i])])
            \o <<"]", "}">>
      [] node.kind = "map" ->
            <<"{">>
            \o Joined([i \in 1..Len(node.entries) |->
                            (IF node.entries[i].key.kind = "str"
                             THEN Json(node.entries[i].key)
                             ELSE <<"\"">> \o Json(node.entries[i].key)
                                  \o <<"\"">>)
                            \o <<":">> \o Json(node.entries[i].value)])
            \o <<"}">>
      [] node.kind = "struct" ->
            <<"{">>
            \o Joined([i \in 1..Len(node.fields) |->
                            Quoted(node.fields[i].name) \o <<":">>
                            \o Json(node.fields[i].value)])
            \o <<"}">>
      [] node.kind = "struct_variant" ->
            <<"{">> \o Quoted(node.variant) \o <<":", "{">>
            \o Joined([i \in 1..Len(node.fields) |->
                            Quoted(node.fields[i].name) \o <<":">>
                            \o Json(node.fields[i].value)])
            \o <<"}", "}">>

\* the reference writes the tests' expected texts
ReferenceWritesTests ==
    /\ Json(test_enum_Tuple)
        = <<"{", "\"", "T", "u", "p", "l", "e", "\"", ":", "[", "1", ",",
            "2", "]", "}">>
    /\ Json(test_enum_Struct)
        = <<"{", "\"", "S", "t", "r", "u", "c", "t", "\"", ":", "{", "\"",
            "a", "\"", ":", "1", "}", "}">>
    /\ Decimal(I64_MIN)
        = <<"-", "9", "2", "2", "3", "3", "7", "2", "0", "3", "6", "8", "5",
            "4", "7", "7", "5", "8", "0", "8">>
    /\ ValueJson(VTimestamp(0, 0)) = Quoted(Rfc3339(0, 0))
    /\ Rfc3339(0, 0)
        = <<"1", "9", "7", "0", "-", "0", "1", "-", "0", "1", "T", "0", "0",
            ":", "0", "0", ":", "0", "0", "Z">>
    /\ Rfc3339(86399, 123000000)
        = <<"1", "9", "7", "0", "-", "0", "1", "-", "0", "1", "T", "2", "3",
            ":", "5", "9", ":", "5", "9", ".", "1", "2", "3", "Z">>

----------------------------------------------------------------------------
(* One computation, call by call.  A frame of the stack is a value whose    *)
(* serialize is about to be called, or an open collection with the          *)
(* elements, entries or fields it has still to pass to the serializer.      *)

ValueFrame(node) == [op |-> "value", node |-> node]
ElementsFrame(kind, rest) == [op |-> kind, rest |-> rest]
EntriesFrame(rest, half) == [op |-> "map", rest |-> rest, half |-> half]

Top == Head(stack)

\* the value on top of the stack is about to call the entry point `kind`
Calls(kind) ==
    /\ pc = "serializing"
    /\ stack # <<>>
    /\ Top.op = "value"
    /\ Dispatch(Top.node).kind = kind

Called == Dispatch(Top.node)

\* the collection on top of the stack is of kind `kind`
Open(kind) ==
    /\ pc = "serializing"
    /\ stack # <<>>
    /\ Top.op = kind

\* the last call made: its entry point (serialize_bool is "bool", and so
\* on), the value that made it, the serializer it was made on and what the
\* reference had written when it was made
Made(call, node) ==
    [call |-> call, node |-> node, before |-> serializer,
     written |-> reference]

\* an element, key, value, field or end call is made by an open collection
OpenCollection(frame) == [kind |-> "open", frame |-> frame]

(* The reference encoder, run side by side on the same calls: the bytes it  *)
(* has written so far and, for every frame of the stack, whether the        *)
(* collection of the frame has still to write its first element and what    *)
(* the encoder writes when the call of the frame returns (the closing brace *)
(* of a newtype variant).  The encoder keeps `first` per collection.        *)

RefFrame(first, closing) == [first |-> first, closing |-> closing]

NewReference == [bytes |-> 0, frames |-> <<>>]

\* what the reference writes for a scalar: a byte buffer as a string, a
\* character as its UTF-8 bytes in quotes
Written(node) ==
    CASE node.kind = "bytes" -> Len(Quoted(node.s))
      [] node.kind = "char" -> QUOTES_SIZE + len_utf8(node.c)
      [] OTHER -> Len(Json(node))

\* `{"variant":` for a newtype variant, nothing for an option or a newtype
\* struct
InnerWritten(d) ==
    IF d.kind = "newtype_variant" THEN Len(Quoted(d.variant)) + 2 ELSE 0

\* `}` after the inner value of a newtype variant
InnerClosing(d) == IF d.kind = "newtype_variant" THEN 1 ELSE 0

\* `[` or `{`, after `{"variant":` for a tuple or struct variant
OpenWritten(d) ==
    IF d.kind \in {"tuple_variant", "struct_variant"}
    THEN Len(Quoted(d.variant)) + 3
    ELSE 1

\* `]` or `}`, and the `}` of a tuple or struct variant
EndWritten(kind) ==
    IF kind \in {"tuple_variant", "struct_variant"} THEN 2 ELSE 1

\* the call of the top frame writes n bytes and returns
Ref_returns(ref, n) ==
    [bytes |-> ref.bytes + n + Head(ref.frames).closing,
     frames |-> Tail(ref.frames)]

\* the call of the top frame writes n bytes and hands on to an inner value
Ref_inner(ref, n, closing) ==
    [bytes |-> ref.bytes + n,
     frames |-> <<[Head(ref.frames) EXCEPT !.closing = @ + closing]>>
                \o Tail(ref.frames)]

\* the call of the top frame writes n bytes and leaves a collection open
Ref_opens(ref, n) ==
    [bytes |-> ref.bytes + n,
     frames |-> <<[Head(ref.frames) EXCEPT !.first = TRUE]>>
                \o Tail(ref.frames)]

\* an element, key or field call: a comma unless the collection's first,
\* then n bytes of name and colon
Ref_element(ref, n) ==
    LET comma == IF Head(ref.frames).first THEN 0 ELSE 1
    IN  [bytes |-> ref.bytes + comma + n,
         frames |-> <<RefFrame(FALSE, 0),
                      [Head(ref.frames) EXCEPT !.first = FALSE]>>
                    \o Tail(ref.frames)]

\* the key call of a map entry: a comma unless the map's first, and a key
\* that is not a string written between quotes
Ref_key(ref, key) ==
    LET comma == IF Head(ref.frames).first THEN 0 ELSE 1
        quote == IF Dispatch(key).kind = "str" THEN 0 ELSE 1
    IN  [bytes |-> ref.bytes + comma + quote,
         frames |-> <<RefFrame(FALSE, quote),
                      [Head(ref.frames) EXCEPT !.first = FALSE]>>
                    \o Tail(ref.frames)]

\* the value call of a map entry: the colon
Ref_value(ref) ==
    [bytes |-> ref.bytes + 1,
     frames |-> <<RefFrame(FALSE, 0)>> \o ref.frames]

\* the call of the top frame returns an error
Ref_Err(ref) == [ref EXCEPT !.frames = Tail(@)]

\* no second computation
Alone == [pc |-> "no computation"]

Init ==
    /\ input \in Inputs
    /\ serializer = NewSerializer
    /\ stack = <<>>
    /\ pc = "start"
    /\ result = [tag |-> "None"]
    /\ last = [call |-> "no call", node |-> [kind |-> "no value"],
               before |-> NewSerializer, written |-> NewReference]
    /\ reference = NewReference
    /\ other = Alone

\* fn size_of, lines 105-109: the serializer is made and the value is asked
\* to serialize itself
size_of_call ==
    /\ pc = "start"
    /\ serializer' = NewSerializer
    /\ stack' = <<ValueFrame(input)>>
    /\ pc' = "serializing"
    /\ reference' = [bytes |-> 0, frames |-> <<RefFrame(FALSE, 0)>>]
    /\ UNCHANGED <<input, result, last, other>>

\* fn size_of, line 110: Ok(serializer.bytes)
size_of_return ==
    /\ pc = "serializing"
    /\ stack = <<>>
    /\ result' = [tag |-> "Ok", bytes |-> serializer.bytes]
    /\ pc' = "returned"
    /\ UNCHANGED <<input, serializer, stack, last, reference, other>>

\* a scalar call: the serializer changes and the call returns
Scalar(kind, after) ==
    /\ Calls(kind)
    /\ serializer' = after
    /\ stack' = Tail(stack)
    /\ last' = Made(kind, Top.node)
    /\ reference' = Ref_returns(reference, Written(Top.node))
    /\ UNCHANGED <<input, pc, result, other>>

\* a call that hands the serializer on to an inner value
Inner(kind, after) ==
    /\ Calls(kind)
    /\ serializer' = after
    /\ stack' = <<ValueFrame(Called.inner)>> \o Tail(stack)
    /\ last' = Made(kind, Top.node)
    /\ reference' = Ref_inner(reference, InnerWritten(Called), InnerClosing(Called))
    /\ UNCHANGED <<input, pc, result, other>>

\* a call that opens a collection
Opens(kind, after, frame) ==
    /\ Calls(kind)
    /\ serializer' = after
    /\ stack' = <<frame>> \o Tail(stack)
    /\ last' = Made(kind, Top.node)
    /\ reference' = Ref_opens(reference, OpenWritten(Called))
    /\ UNCHANGED <<input, pc, result, other>>

\* an element or field call of an open collection
Element(kind, call, after) ==
    /\ Open(kind)
    /\ Top.rest # <<>>
    /\ serializer' = after
    /\ stack' = <<ValueFrame(Head(Top.rest)), [Top EXCEPT !.rest = Tail(@)]>>
                 \o Tail(stack)
    /\ last' = Made(call, OpenCollection(Top))
    /\ reference' = Ref_element(reference, 0)
    /\ UNCHANGED <<input, pc, result, other>>

\* a named field call of an open struct
Field(kind, call, after) ==
    /\ Open(kind)
    /\ Top.rest # <<>>
    /\ serializer' = after
    /\ stack' = <<ValueFrame(Head(Top.rest).value),
                  [Top EXCEPT !.rest = Tail(@)]>> \o Tail(stack)
    /\ last' = Made(call, OpenCollection(Top))
    /\ reference' = Ref_element(reference, Len(Quoted(Head(Top.rest).name)) + 1)
    /\ UNCHANGED <<input, pc, result, other>>

\* the end call of an open collection
End(kind, call, after) ==
    /\ Open(kind)
    /\ Top.rest = <<>>
    /\ serializer' = after
    /\ stack' = Tail(stack)
    /\ last' = Made(call, OpenCollection(Top))
    /\ reference' = Ref_returns(reference, EndWritten(kind))
    /\ UNCHANGED <<input, pc, result, other>>

----------------------------------------------------------------------------
(* One action per entry point. *)

Call_serialize_bool == Scalar("bool", serialize_bool(serializer, Called.b))
Call_serialize_i8 == Scalar("i8", serialize_i8(serializer, Called.v))
Call_serialize_i16 == Scalar("i16", serialize_i16(serializer, Called.v))
Call_serialize_i32 == Scalar("i32", serialize_i32(serializer, Called.v))
Call_serialize_i64 == Scalar("i64", serialize_i64(serializer, Called.v))
Call_serialize_u8 == Scalar("u8", serialize_u8(serializer, Called.v))
Call_serialize_u16 == Scalar("u16", serialize_u16(serializer, Called.v))
Call_serialize_u32 == Scalar("u32", serialize_u32(serializer, Called.v))
Call_serialize_u64 == Scalar("u64", serialize_u64(serializer, Called.v))
Call_serialize_f32 == Scalar("f32", serialize_f32(serializer, Called.text))
Call_serialize_f64 == Scalar("f64", serialize_f64(serializer, Called.text))
Call_serialize_char == Scalar("char", serialize_char(serializer, Called.c))
Call_serialize_str == Scalar("str", serialize_str(serializer, Called.s))
Call_serialize_bytes == Scalar("bytes", serialize_bytes(serializer, Called.s))
Call_serialize_none == Scalar("none", serialize_none(serializer))
Call_serialize_some == Inner("some", serialize_some(serializer))
Call_serialize_unit == Scalar("unit", serialize_unit(serializer))
Call_serialize_unit_struct ==
    Scalar("unit_struct", serialize_unit_struct(serializer))
Call_serialize_unit_variant ==
    Scalar("unit_variant", serialize_unit_variant(serializer, Called.variant))
Call_serialize_newtype_struct ==
    Inner("newtype_struct", serialize_newtype_struct(serializer))
Call_serialize_newtype_variant ==
    Inner("newtype_variant",
          serialize_newtype_variant(serializer, Called.variant))

Call_serialize_seq ==
    Opens("seq", serialize_seq(serializer),
          ElementsFrame("seq", Called.elems))
Call_serialize_tuple ==
    Opens("tuple", serialize_tuple(serializer),
          ElementsFrame("tuple", Called.elems))
Call_serialize_tuple_struct ==
    Opens("tuple_struct", serialize_tuple_struct(serializer),
          ElementsFrame("tuple_struct", Called.elems))
Call_serialize_tuple_variant ==
    Opens("tuple_variant",
          serialize_tuple_variant(serializer, Called.variant),
          ElementsFrame("tuple_variant", Called.elems))
Call_serialize_map ==
    Opens("map", serialize_map(serializer),
          EntriesFrame(Called.entries, "key"))
Call_serialize_struct ==
    Opens("struct", serialize_struct(serializer),
          ElementsFrame("struct", Called.fields))
Call_serialize_struct_variant ==
    Opens("struct_variant",
          serialize_struct_variant(serializer, Called.variant),
          ElementsFrame("struct_variant", Called.fields))

Call_SerializeSeq_serialize_element ==
    Element("seq", "SerializeSeq_serialize_element",
        SerializeSeq_serialize_element(serializer))
Call_SerializeSeq_end ==
    End("seq", "SerializeSeq_end", SerializeSeq_end(serializer))

Call_SerializeTuple_serialize_element ==
    Element("tuple", "SerializeTuple_serialize_element",
        SerializeTuple_serialize_element(serializer))
Call_SerializeTuple_end ==
    End("tuple", "SerializeTuple_end", SerializeTuple_end(serializer))

Call_SerializeTupleStruct_serialize_field ==
    Element("tuple_struct", "SerializeTupleStruct_serialize_field",
        SerializeTupleStruct_serialize_field(serializer))
Call_SerializeTupleStruct_end ==
    End("tuple_struct", "SerializeTupleStruct_end",
        SerializeTupleStruct_end(serializer))

Call_SerializeTupleVariant_serialize_field ==
    Element("tuple_variant", "SerializeTupleVariant_serialize_field",
            SerializeTupleVariant_serialize_field(serializer))
Call_SerializeTupleVariant_end ==
    End("tuple_variant", "SerializeTupleVariant_end",
        SerializeTupleVariant_end(serializer))

\* a key that is not a string charged the two quotes a JSON encoder writes
\* around it
Call_SerializeMap_serialize_key_quotes_key ==
    /\ Open("map")
    /\ Top.rest # <<>>
    /\ Top.half = "key"
    /\ serializer' =
            AddBytes(SerializeMap_serialize_key(serializer),
                     IF Dispatch(Head(Top.rest).key).kind = "str"
                     THEN 0 ELSE QUOTES_SIZE)
    /\ last' = Made("SerializeMap_serialize_key", OpenCollection(Top))
    /\ stack' = <<ValueFrame(Head(Top.rest).key),
                  [Top EXCEPT !.half = "value"]>> \o Tail(stack)
    /\ reference' = Ref_key(reference, Head(Top.rest).key)
    /\ UNCHANGED <<input, pc, result, other>>

\* the default serialize_entry of the protocol: the key, then the value
Call_SerializeMap_serialize_key ==
    /\ Open("map")
    /\ Top.rest # <<>>
    /\ Top.half = "key"
    /\ serializer' = SerializeMap_serialize_key(serializer)
    /\ last' = Made("SerializeMap_serialize_key", OpenCollection(Top))
    /\ stack' = <<ValueFrame(Head(Top.rest).key),
                  [Top EXCEPT !.half = "value"]>> \o Tail(stack)
    /\ reference' = Ref_key(reference, Head(Top.rest).key)
    /\ UNCHANGED <<input, pc, result, other>>

Call_SerializeMap_serialize_value ==
    /\ Open("map")
    /\ Top.rest # <<>>
    /\ Top.half = "value"
    /\ serializer' = SerializeMap_serialize_value(serializer)
    /\ last' = Made("SerializeMap_serialize_value", OpenCollection(Top))
    /\ stack' = <<ValueFrame(Head(Top.rest).value),
                  [Top EXCEPT !.rest = Tail(@), !.half = "key"]>>
                 \o Tail(stack)
    /\ reference' = Ref_value(reference)
    /\ UNCHANGED <<input, pc, result, other>>

Call_SerializeMap_end ==
    /\ Open("map")
    /\ Top.half = "key"
    /\ End("map", "SerializeMap_end", SerializeMap_end(serializer))

Call_SerializeStruct_serialize_field ==
    Field("struct", "SerializeStruct_serialize_field",
          SerializeStruct_serialize_field(serializer, Head(Top.rest).name))
Call_SerializeStruct_end ==
    End("struct", "SerializeStruct_end", SerializeStruct_end(serializer))

Call_SerializeStructVariant_serialize_field ==
    Field("struct_variant", "SerializeStructVariant_serialize_field",
          SerializeStructVariant_serialize_field(serializer,
                                                 Head(Top.rest).name))
Call_SerializeStructVariant_end ==
    End("struct_variant", "SerializeStructVariant_end",
        SerializeStructVariant_end(serializer))

Next ==
    \/ size_of_call
    \/ size_of_return
    \/ Call_serialize_bool
    \/ Call_serialize_i8
    \/ Call_serialize_i16
    \/ Call_serialize_i32
    \/ Call_serialize_i64
    \/ Call_serialize_u8
    \/ Call_serialize_u16
    \/ Call_serialize_u32
    \/ Call_serialize_u64
    \/ Call_serialize_f32
    \/ Call_serialize_f64
    \/ Call_serialize_char
    \/ Call_serialize_str
    \/ Call_serialize_bytes
    \/ Call_serialize_none
    \/ Call_serialize_some
    \/ Call_serialize_unit
    \/ Call_serialize_unit_struct
    \/ Call_serialize_unit_variant
    \/ Call_serialize_newtype_struct
    \/ Call_serialize_newtype_variant
    \/ Call_serialize_seq
    \/ Call_serialize_tuple
    \/ Call_serialize_tuple_struct
    \/ Call_serialize_tuple_variant
    \/ Call_serialize_map
    \/ Call_serialize_struct
    \/ Call_serialize_struct_variant
    \/ Call_SerializeSeq_serialize_element
    \/ Call_SerializeSeq_end
    \/ Call_SerializeTuple_serialize_element
    \/ Call_SerializeTuple_end
    \/ Call_SerializeTupleStruct_serialize_field
    \/ Call_SerializeTupleStruct_end
    \/ Call_SerializeTupleVariant_serialize_field
    \/ Call_SerializeTupleVariant_end
    \/ Call_SerializeMap_serialize_key
    \/ Call_SerializeMap_serialize_value
    \/ Call_SerializeMap_end
    \/ Call_SerializeStruct_serialize_field
    \/ Call_SerializeStruct_end
    \/ Call_SerializeStructVariant_serialize_field
    \/ Call_SerializeStructVariant_end

Spec == Init /\ [][Next]_vars

----------------------------------------------------------------------------
(* The call-by-call run and the one-function form agree on the result. *)

Returned == pc = "returned"

ResultIsSizeOf == Returned => result = [tag |-> "Ok", bytes |-> size_of(input)]

----------------------------------------------------------------------------
(* Values that cannot be serialized.  No entry point of the serializer      *)
(* makes an error: an error is made by a value's own serialize, through     *)
(* ser::Error::custom (lines 85-89), and comes back through every enclosing *)
(* call: the `?` of lines 447, 481, 506 and 109 and the tail calls          *)
(* `value.serialize(&mut **self)` of the element, key, value and field      *)
(* calls.                                                                   *)

\* a value whose serialize returns Err(Error::custom(..)) and calls nothing
Unserializable == [kind |-> "error"]

\* x at every position of every collection, inside every wrapper and as a
\* key of a map
FailingAt(x) ==
    UNION {Collections(Around(x, q[1], q[2], Filler)) : q \in Positions}
    \cup Wrappers(x)
    \cup {Map(<<[key |-> x, value |-> Filler]>>),
          Map(<<[key |-> Str(Name(1)), value |-> Filler],
                [key |-> x, value |-> Filler]>>)}

FailingInputs ==
    {Unserializable}
    \cup FailingAt(Unserializable)
    \cup UNION {FailingAt(y) :
            y \in UNION {Nesting(Around(Unserializable, q[1], q[2], Filler)) :
                            q \in NarrowPositions}}

FallibleInit ==
    /\ input \in Inputs \cup FailingInputs
    /\ serializer = NewSerializer
    /\ stack = <<>>
    /\ pc = "start"
    /\ result = [tag |-> "None"]
    /\ last = [call |-> "no call", node |-> [kind |-> "no value"],
               before |-> NewSerializer, written |-> NewReference]
    /\ reference = NewReference
    /\ other = Alone

\* an entry point that makes an error of its own: serialize_bytes refuses
\* byte buffers
serialize_returns_Err_from_serialize_bytes ==
    /\ Calls("error") \/ Calls("bytes")
    /\ stack' = Tail(stack)
    /\ pc' = "failed"
    /\ last' = Made("error", Top.node)
    /\ reference' = Ref_Err(reference)
    /\ UNCHANGED <<input, serializer, result, other>>

\* the serialize of a value returns Err
serialize_returns_Err ==
    /\ Calls("error")
    /\ stack' = Tail(stack)
    /\ pc' = "failed"
    /\ last' = Made("error", Top.node)
    /\ reference' = Ref_Err(reference)
    /\ UNCHANGED <<input, serializer, result, other>>

\* the enclosing call drops the error and goes on with what it had to do
propagate_Err_ignored ==
    /\ pc = "failed"
    /\ stack # <<>>
    /\ pc' = "serializing"
    /\ UNCHANGED <<input, serializer, stack, result, last, reference,
                   other>>

\* the enclosing call returns the error it was handed: the open collection
\* or the value that made the call is left as it is and never continued
propagate_Err ==
    /\ pc = "failed"
    /\ stack # <<>>
    /\ stack' = Tail(stack)
    /\ reference' = Ref_Err(reference)
    /\ UNCHANGED <<input, serializer, pc, result, last, other>>

\* fn size_of, line 109: `?` returns the error to the caller of size_of
size_of_Err ==
    /\ pc = "failed"
    /\ stack = <<>>
    /\ result' = [tag |-> "Err"]
    /\ pc' = "returned"
    /\ UNCHANGED <<input, serializer, stack, last, reference, other>>

\* fn json_encoded_size_of, lines 68-70: size_of(self).unwrap() hands the
\* caller the count of Ok and panics on Err
json_encoded_size_of ==
    /\ pc = "returned"
    /\ result' = IF result.tag = "Ok"
                 THEN [tag |-> "usize", bytes |-> result.bytes]
                 ELSE [tag |-> "panic"]
    /\ pc' = "unwrapped"
    /\ UNCHANGED <<input, serializer, stack, last, reference, other>>

FallibleNext ==
    \/ Next
    \/ serialize_returns_Err
    \/ propagate_Err
    \/ size_of_Err
    \/ json_encoded_size_of

FallibleSpec == FallibleInit /\ [][FallibleNext]_vars

----------------------------------------------------------------------------
(* Claims. *)

ReturnedOk(n) == Returned /\ result = [tag |-> "Ok", bytes |-> n]

\* a Value the exactness contract covers: no float, no character needing
\* an escape, every timestamp at millisecond precision
RECURSIVE Exact(_)
Exact(value) ==
    CASE value.t \in {"Null", "Boolean", "Integer"} -> TRUE
      [] value.t = "Float" -> FALSE
      [] value.t = "Bytes" ->
            \A i \in 1..Len(value.s) : ~NeedsEscape(value.s[i])
      [] value.t = "Timestamp" ->
            value.nanos # 0 /\ value.nanos % 1000000 = 0
      [] value.t = "Array" ->
            \A i \in 1..Len(value.elems) : Exact(value.elems[i])
      [] value.t = "Object" ->
            \A i \in 1..Len(value.entries) :
                /\ \A j \in 1..Len(value.entries[i].key) :
                        ~NeedsEscape(value.entries[i].key[j])
                /\ Exact(value.entries[i].value)

\* C1: for every Value of the exactness contract, size_of(JsonEncodedValue(V))
\* returns the byte length of the JSON text the reference writes for V.
C1_Exactness ==
    (Returned /\ input.kind = "JsonEncodedValue" /\ Exact(input.value))
        => result = [tag |-> "Ok", bytes |-> Len(ValueJson(input.value))]

\* C2: for every 64-bit signed integer v, serialize_i64 adds the number of
\* characters of v's canonical decimal form; i64::MIN adds 20 and i64::MAX
\* adds 19.
C2_I64DecimalLength ==
    (Returned /\ input.kind = "i64")
        => result = [tag |-> "Ok", bytes |-> Len(Decimal(input.v))]

\* C3: for every signed integer v of 8, 16 or 32 bits, serialize_i8 /
\* serialize_i16 / serialize_i32 adds the length of v's canonical decimal
\* form, minus sign included: -128 adds 4, -32768 adds 6, -2147483648 adds 11.
C3_SignedDecimalLength ==
    /\ (Returned /\ input.kind \in {"i8", "i16", "i32"})
            => result = [tag |-> "Ok", bytes |-> Len(Decimal(input.v))]
    /\ (Returned /\ input = I8(I8_MIN)) => result.bytes = 4
    /\ (Returned /\ input = I16(I16_MIN)) => result.bytes = 6
    /\ (Returned /\ input = I32(I32_MIN)) => result.bytes = 11

C3_Witness ==
    /\ ReturnedOk(11)
    /\ input = I32(I32_MIN)
    /\ last.call = "i32"

\* C4: for every unsigned integer v of 8, 16, 32 or 64 bits, serialize_u8 /
\* serialize_u16 / serialize_u32 / serialize_u64 adds the number of decimal
\* digits of v: 255 adds 3, 65535 adds 5, 4294967295 adds 10 and
\* 18446744073709551615 adds 20.
C4_UnsignedDecimalLength ==
    /\ (Returned /\ input.kind \in {"u8", "u16", "u32", "u64"})
            => result = [tag |-> "Ok", bytes |-> Len(Decimal(input.v))]
    /\ (Returned /\ input = U8(U8_MAX)) => result.bytes = 3
    /\ (Returned /\ input = U16(U16_MAX)) => result.bytes = 5
    /\ (Returned /\ input = U32(U32_MAX)) => result.bytes = 10
    /\ (Returned /\ input = U64(U64_MAX)) => result.bytes = 20

C4_Witness ==
    /\ ReturnedOk(20)
    /\ input = U64(U64_MAX)
    /\ last.call = "u64"

RECURSIVE Sum(_)
Sum(ns) == IF ns = <<>> THEN 0 ELSE Head(ns) + Sum(Tail(ns))

\* max(0, n - 1)
Commas(n) == IF n >= 1 THEN n - 1 ELSE 0

\* the size the claims give a struct's fields: the quoted name, a colon and
\* the value, for each field
FieldsSize(fields) ==
    Sum([i \in 1..Len(fields) |->
            Len(fields[i].name) + 2 + 1 + size_of(fields[i].value)])

ElementsSize(elems) == Sum([i \in 1..Len(elems) |-> size_of(elems[i])])

EntriesSize(entries) ==
    Sum([i \in 1..Len(entries) |->
            size_of(entries[i].key) + 1 + size_of(entries[i].value)])

\* C5: a struct with n named fields sizes to 2 + the sum over its fields of
\* (length of the name + 2 quotes + 1 colon + size of the value) + n - 1
\* commas when n >= 1, also when a field's value is a sequence; the struct
\* {int: 1, seq: ["a","b"]} sizes to 25.
C5_StructSize ==
    /\ (Returned /\ input.kind = "struct")
            => result = [tag |-> "Ok",
                         bytes |-> 2 + FieldsSize(input.fields)
                                   + Commas(Len(input.fields))]
    /\ (Returned /\ input = test_struct) => result.bytes = 25

C5_Witness ==
    /\ ReturnedOk(25)
    /\ input = test_struct
    /\ last.call = "SerializeStruct_end"

\* C6: a sequence of n elements sizes to 2 + the sizes of its elements +
\* max(0, n-1) commas, and a map of n pairs to 2 + the sum over its pairs of
\* (key size + 1 colon + value size) + max(0, n-1) commas: an empty sequence
\* and an empty map size to 2, [1] to 3 and [1,2] to 5.
C6_SeqAndMapSize ==
    /\ (Returned /\ Dispatch(input).kind = "seq")
            => result = [tag |-> "Ok",
                         bytes |-> 2 + ElementsSize(Dispatch(input).elems)
                                   + Commas(Len(Dispatch(input).elems))]
    /\ (Returned /\ Dispatch(input).kind = "map")
            => result = [tag |-> "Ok",
                         bytes |-> 2 + EntriesSize(Dispatch(input).entries)
                                   + Commas(Len(Dispatch(input).entries))]
    /\ (Returned /\ input = SeqOf(<<>>)) => result.bytes = 2
    /\ (Returned /\ input = Map(<<>>)) => result.bytes = 2
    /\ (Returned /\ input = seq_of_1) => result.bytes = 3
    /\ (Returned /\ input = seq_of_1_2) => result.bytes = 5

C6_Witness ==
    /\ ReturnedOk(5)
    /\ input = seq_of_1_2
    /\ last.call = "SerializeSeq_end"

\* the closed forms of C7, and the reference text of every variant
VariantClosedForms ==
    /\ (Returned /\ input.kind = "unit_variant")
            => result = [tag |-> "Ok", bytes |-> Len(input.variant) + 2]
    /\ (Returned /\ input.kind = "newtype_variant")
            => result = [tag |-> "Ok",
                         bytes |-> Len(input.variant) + 5
                                   + size_of(input.inner)]
    /\ (Returned /\ input.kind = "tuple_variant")
            => result = [tag |-> "Ok",
                         bytes |-> Len(input.variant) + 7
                                   + ElementsSize(input.elems)
                                   + Commas(Len(input.elems))]
    /\ (Returned /\ input.kind = "struct_variant")
            => result = [tag |-> "Ok",
                         bytes |-> Len(input.variant) + 7
                                   + FieldsSize(input.fields)
                                   + Commas(Len(input.fields))]
    /\ (Returned /\ input.kind \in {"unit_variant", "newtype_variant",
                                     "tuple_variant", "struct_variant"})
            => result.bytes = Len(Json(input))

\* C7 as claimed: every enum variant sizes to the length of its externally
\* tagged JSON form: a unit variant with tag t to len(t)+2, a newtype
\* variant to len(t)+5+size(inner), a tuple variant of n elements to
\* len(t)+7+the sizes of its elements+max(0,n-1), a struct variant of n
\* fields to len(t)+7+the sum of (len(name)+3+size(value))+max(0,n-1); Unit
\* sizes to 6, Newtype(1) to 13, Tuple(1,2) to 15 and Struct{a:1} to 19.
C7_AsClaimed ==
    /\ VariantClosedForms
    /\ (Returned /\ input = test_enum_Unit) => result.bytes = 6
    /\ (Returned /\ input = test_enum_Newtype) => result.bytes = 13
    /\ (Returned /\ input = test_enum_Tuple) => result.bytes = 15
    /\ (Returned /\ input = test_enum_Struct) => result.bytes = 19

\* C7, amended: the same closed forms; Unit sizes to 6, Newtype(1) to 13,
\* Tuple(1,2) to 15 and Struct{a:1} to 18, the length of {"Struct":{"a":1}}.
C7_VariantSize ==
    /\ VariantClosedForms
    /\ (Returned /\ input = test_enum_Unit) => result.bytes = 6
    /\ (Returned /\ input = test_enum_Newtype) => result.bytes = 13
    /\ (Returned /\ input = test_enum_Tuple) => result.bytes = 15
    /\ (Returned /\ input = test_enum_Struct)
            => /\ result.bytes = 18
               /\ Len(Json(test_enum_Struct)) = 18

C7_Witness ==
    /\ ReturnedOk(18)
    /\ input = test_enum_Struct
    /\ last.call = "SerializeStructVariant_end"

\* the last call was made by the Value variant t behind a JsonEncodedValue
LastValue(t) ==
    /\ last.node.kind = "JsonEncodedValue"
    /\ last.node.value.t = t

\* C8: a byte buffer of n bytes is counted as n + 2, a quoted string, never
\* as a sequence of integers, at every nesting depth: alone, as an array
\* element or as an object value inside any number of arrays and objects.
C8_BytesAsQuotedString ==
    LastValue("Bytes")
        => /\ last.call = "bytes"
           /\ serializer.bytes
                = last.before.bytes + Len(last.node.value.s) + 2
           /\ serializer.start_collection = last.before.start_collection

C8_Witness ==
    /\ LastValue("Bytes")
    /\ Len(stack) >= 2
    /\ \A i \in 1..Len(stack) : stack[i].op \in {"seq", "map"}
    /\ Len(last.node.value.s) = 2
    /\ serializer.bytes = last.before.bytes + 4

\* C9: every timestamp, whatever its instant and sub-second precision and at
\* whatever nesting depth, is counted as the length of the epoch string
\* "1970-01-01T00:00:00.000Z" (24) plus 2 quotes = 26.
C9_TimestampFixedSize ==
    /\ Len(EPOCH_RFC3339) = 24
    /\ LastValue("Timestamp")
            => /\ last.call = "str"
               /\ serializer.bytes = last.before.bytes + 26
    /\ (Returned /\ input.kind = "JsonEncodedValue"
            /\ input.value.t = "Timestamp") => result.bytes = 26

C9_Witness ==
    /\ LastValue("Timestamp")
    /\ last.node.value.nanos = 123456789
    /\ Len(stack) >= 2
    /\ serializer.bytes = last.before.bytes + 26

\* C10: an absent optional value is counted as 4, as null and unit are, and
\* a present one as the count of its inner value with no wrapper bytes, for
\* every inner value, collections included.
C10_OptionSize ==
    /\ (Returned /\ input.kind = "none")
            => result = [tag |-> "Ok", bytes |-> 4]
    /\ (Returned /\ input.kind = "none") => result.bytes = size_of(Unit)
    /\ last.call = "none" => serializer.bytes = last.before.bytes + 4
    /\ (Returned /\ input.kind = "some")
            => result = [tag |-> "Ok", bytes |-> size_of(input.inner)]
    /\ last.call = "some" => serializer = last.before

C10_Witness ==
    /\ Returned
    /\ input.kind = "some"
    /\ input.inner.kind = "map"
    /\ Len(input.inner.entries) = 2
    /\ result = [tag |-> "Ok", bytes |-> size_of(input.inner)]

----------------------------------------------------------------------------
(* size_of called again on the same value by a caller that holds the result *)
(* of the call before.                                                      *)

\* the serializer of the call before is the serializer of the next call
size_of_again_same_serializer ==
    /\ pc = "returned"
    /\ stack' = <<ValueFrame(input)>>
    /\ pc' = "serializing"
    /\ reference' = [bytes |-> 0, frames |-> <<RefFrame(FALSE, 0)>>]
    /\ UNCHANGED <<input, serializer, result, last, other>>

\* fn size_of, lines 105-109, called once more: `let mut serializer` is a
\* new Serializer in every call
size_of_again ==
    /\ pc = "returned"
    /\ serializer' = NewSerializer
    /\ stack' = <<ValueFrame(input)>>
    /\ pc' = "serializing"
    /\ reference' = [bytes |-> 0, frames |-> <<RefFrame(FALSE, 0)>>]
    /\ UNCHANGED <<input, result, last, other>>

RepeatedNext ==
    \/ Next
    \/ serialize_returns_Err
    \/ propagate_Err
    \/ size_of_Err
    \/ size_of_again

RepeatedSpec == FallibleInit /\ [][RepeatedNext]_vars

----------------------------------------------------------------------------
(* Two computations at once, each a call of size_of on its own thread with  *)
(* its own `serializer` (a local of size_of, lines 105-108), their protocol *)
(* calls interleaved in every order.  The second computation is the record  *)
(* `other`; its calls are the calls of the actions above, as one function   *)
(* of the computation.                                                      *)

ScalarKinds ==
    {"bool", "i8", "i16", "i32", "i64", "u8", "u16", "u32", "u64", "f32",
     "f64", "char", "str", "bytes", "unit", "none", "unit_struct",
     "unit_variant"}

EndCall(kind, self) ==
    CASE kind = "seq" -> SerializeSeq_end(self)
      [] kind = "tuple" -> SerializeTuple_end(self)
      [] kind = "tuple_struct" -> SerializeTupleStruct_end(self)
      [] kind = "tuple_variant" -> SerializeTupleVariant_end(self)
      [] kind = "map" -> SerializeMap_end(self)
      [] kind = "struct" -> SerializeStruct_end(self)
      [] kind = "struct_variant" -> SerializeStructVariant_end(self)

\* the computation c after the protocol call it makes next
StepOf(c) ==
    LET top == Head(c.stack)
        self == c.serializer
        Goes(after, frames) ==
            [c EXCEPT !.serializer = after, !.stack = frames \o Tail(@)]
        Shorter == [top EXCEPT !.rest = Tail(@)]
    IN
    IF top.op = "value" THEN
        LET d == Dispatch(top.node) IN
        CASE d.kind \in ScalarKinds -> Goes(Serialize(self, d), <<>>)
          [] d.kind = "some" ->
                Goes(serialize_some(self), <<ValueFrame(d.inner)>>)
          [] d.kind = "newtype_struct" ->
                Goes(serialize_newtype_struct(self), <<ValueFrame(d.inner)>>)
          [] d.kind = "newtype_variant" ->
                Goes(serialize_newtype_variant(self, d.variant),
                     <<ValueFrame(d.inner)>>)
          [] d.kind = "seq" ->
                Goes(serialize_seq(self), <<ElementsFrame("seq", d.elems)>>)
          [] d.kind = "tuple" ->
                Goes(serialize_tuple(self),
                     <<ElementsFrame("tuple", d.elems)>>)
          [] d.kind = "tuple_struct" ->
                Goes(serialize_tuple_struct(self),
                     <<ElementsFrame("tuple_struct", d.elems)>>)
          [] d.kind = "tuple_variant" ->
                Goes(serialize_tuple_variant(self, d.variant),
                     <<ElementsFrame("tuple_variant", d.elems)>>)
          [] d.kind = "map" ->
                Goes(serialize_map(self), <<EntriesFrame(d.entries, "key")>>)
          [] d.kind = "struct" ->
                Goes(serialize_struct(self),
                     <<ElementsFrame("struct", d.fields)>>)
          [] d.kind = "struct_variant" ->
                Goes(serialize_struct_variant(self, d.variant),
                     <<ElementsFrame("struct_variant", d.fields)>>)
    ELSE IF top.rest = <<>> THEN Goes(EndCall(top.op, self), <<>>)
    ELSE IF top.op = "map" THEN
        IF top.half = "key"
        THEN Goes(SerializeMap_serialize_key(self),
                  <<ValueFrame(Head(top.rest).key),
                    [top EXCEPT !.half = "value"]>>)
        ELSE Goes(SerializeMap_serialize_value(self),
                  <<ValueFrame(Head(top.rest).value),
                    [Shorter EXCEPT !.half = "key"]>>)
    ELSE IF top.op \in {"struct", "struct_variant"}
    THEN Goes(FieldCall(top.op, self, Head(top.rest).name),
              <<ValueFrame(Head(top.rest).value), Shorter>>)
    ELSE Goes(ElementCall(top.op, self),
              <<ValueFrame(Head(top.rest)), Shorter>>)

\* the calls of the actions are the calls of StepOf
StepOfAgrees ==
    [][(pc = "serializing" /\ stack # <<>>)
        => LET c == StepOf([serializer |-> serializer, stack |-> stack])
           IN  serializer' = c.serializer /\ stack' = c.stack]_vars

\* a computation that has not yet called size_of
Computation(value) ==
    [input |-> value, serializer |-> NewSerializer, stack |-> <<>>,
     pc |-> "start", result |-> [tag |-> "None"]]

\* one value for every entry point, the collections holding a nested one
CoverInputs ==
    {Bool(TRUE), I8(I8_MIN), I16(N(0, 0, 1000)), I32(L(0, 0, 70000)),
     I64(I64_MIN), U8(U8_MAX), U16(L(0, 0, 9999)), U32(U32_MAX),
     U64(U64_MAX), F32(<<"1", ".", "5">>), F64(<<"1", ".", "5">>),
     Char(233), Str(<<"a", "b">>), Bytes(<<"a", "b">>), Unit, None,
     UnitStruct, NewtypeStruct(seq_of_1), Some(seq_of_1_2),
     JsonEncodedValue(VObject(VEntries(<<VArray(<<VNull, VNull>>),
                                        VBytes(<<"x", "y">>)>>)))}
    \cup Collections(<<Str(<<"a">>), seq_of_1_2>>)
    \cup TestInputs

OtherInputs ==
    {test_struct, test_enum_Tuple, Map(Entries(<<seq_of_1_2, None>>))}

ConcurrentInit ==
    /\ input \in CoverInputs
    /\ serializer = NewSerializer
    /\ stack = <<>>
    /\ pc = "start"
    /\ result = [tag |-> "None"]
    /\ last = [call |-> "no call", node |-> [kind |-> "no value"],
               before |-> NewSerializer, written |-> NewReference]
    /\ reference = NewReference
    /\ other \in {Computation(value) : value \in {input} \cup OtherInputs}

\* fn size_of, lines 105-109, on the second thread
other_size_of_call ==
    /\ other.pc = "start"
    /\ other' = [other EXCEPT !.serializer = NewSerializer,
                              !.stack = <<ValueFrame(other.input)>>,
                              !.pc = "serializing"]
    /\ UNCHANGED <<input, serializer, stack, pc, result, last, reference>>

\* one serializer for both threads: the call of the second computation is
\* made on the serializer of the first
other_call_on_one_serializer ==
    /\ other.pc = "serializing"
    /\ other.stack # <<>>
    /\ other' = StepOf([other EXCEPT !.serializer = serializer])
    /\ serializer' = other'.serializer
    /\ UNCHANGED <<input, stack, pc, result, last, reference>>

\* a protocol call of the second computation, on its own serializer
other_call ==
    /\ other.pc = "serializing"
    /\ other.stack # <<>>
    /\ other' = StepOf(other)
    /\ UNCHANGED <<input, serializer, stack, pc, result, last, reference>>

\* fn size_of, line 110, on the second thread
other_size_of_return ==
    /\ other.pc = "serializing"
    /\ other.stack = <<>>
    /\ other' = [other EXCEPT
                    !.result = [tag |-> "Ok", bytes |-> other.serializer.bytes],
                    !.pc = "returned"]
    /\ UNCHANGED <<input, serializer, stack, pc, result, last, reference>>

ConcurrentNext ==
    \/ Next
    \/ other_size_of_call
    \/ other_call
    \/ other_size_of_return

ConcurrentSpec == ConcurrentInit /\ [][ConcurrentNext]_vars

----------------------------------------------------------------------------
\* C11: size_of and json_encoded_size_of hand the caller a byte count or the
\* error "size unknown": a serialization that fails is never reported as a
\* number and never ends the call otherwise than by returning the error.
C11_CountOrError ==
    /\ Returned => result.tag \in {"Ok", "Err"}
    /\ pc = "unwrapped" => result.tag \in {"usize", "Err"}
    /\ (pc \in {"returned", "unwrapped"} /\ last.call = "error")
            => result = [tag |-> "Err"]

\* the serialize of `node` reaches a value that cannot be serialized
RECURSIVE Fails(_)
Fails(node) ==
    LET d == Dispatch(node) IN
    CASE d.kind = "error" -> TRUE
      [] d.kind \in {"some", "newtype_struct", "newtype_variant"} ->
            Fails(d.inner)
      [] d.kind \in {"seq", "tuple", "tuple_struct", "tuple_variant"} ->
            \E i \in 1..Len(d.elems) : Fails(d.elems[i])
      [] d.kind = "map" ->
            \E i \in 1..Len(d.entries) :
                Fails(d.entries[i].key) \/ Fails(d.entries[i].value)
      [] d.kind \in {"struct", "struct_variant"} ->
            \E i \in 1..Len(d.fields) : Fails(d.fields[i].value)
      [] OTHER -> FALSE

\* C12: when the serialize of a nested element, key, field or inner value
\* returns an error the computation stops there: no later call is made, so
\* no later sibling is counted and no close is charged, and size_of returns
\* the error, not the bytes counted so far.
C12_ErrorStopsComputation ==
    /\ last.call = "error" => pc # "serializing" /\ serializer = last.before
    /\ (Returned /\ Fails(input)) => result = [tag |-> "Err"]
    /\ (Returned /\ ~Fails(input)) => result.tag = "Ok"

C12_Witness ==
    /\ Returned
    /\ input.kind = "seq"
    /\ Len(input.elems) = 3
    /\ input.elems[2] = Unserializable
    /\ last.call = "error"
    /\ serializer.bytes = 3
    /\ result = [tag |-> "Err"]

\* a call of size_of is about to hand the value the serializer
Starting == pc = "serializing" /\ stack = <<ValueFrame(input)>>

\* a call of size_of returns to a caller that holds the result of the call
\* before
ReturnsAgain == pc = "failed" \/ pc = "serializing"

\* C13: size_of carries nothing from one call to the next: every call starts
\* from counter 0 and cursor false, and a call on the same value returns
\* the result the call before returned, a count or an error.
C13_Deterministic ==
    /\ [](Starting => serializer = NewSerializer)
    /\ [][(ReturnsAgain /\ result.tag # "None" /\ pc' = "returned")
            => result' = result]_vars

\* the second call on test_struct is about to return, with the counter at the
\* count the first call returned
C13_Witness ==
    /\ pc = "serializing"
    /\ stack = <<>>
    /\ input = test_struct
    /\ result = [tag |-> "Ok", bytes |-> 25]
    /\ serializer.bytes = 25

\* a sequence, map, Array or Object without its last element or entry
Front(s) == SubSeq(s, 1, Len(s) - 1)

WithoutLast(node) ==
    CASE node.kind = "seq" -> SeqOf(Front(node.elems))
      [] node.kind = "map" -> Map(Front(node.entries))
      [] node.kind = "JsonEncodedValue" /\ node.value.t = "Array" ->
            JsonEncodedValue(VArray(Front(node.value.elems)))
      [] node.kind = "JsonEncodedValue" /\ node.value.t = "Object" ->
            JsonEncodedValue(VObject(Front(node.value.entries)))

\* the input is a sequence or a map S with an element or entry appended
Appended ==
    \/ input.kind = "seq" /\ input.elems # <<>>
    \/ input.kind = "map" /\ input.entries # <<>>
    \/ /\ input.kind = "JsonEncodedValue"
       /\ \/ input.value.t = "Array" /\ input.value.elems # <<>>
          \/ input.value.t = "Object" /\ input.value.entries # <<>>

\* C14: the size of a sequence or map with an element or entry appended is
\* at least the size without it, for an empty and a non-empty sequence or
\* map and for a scalar and a nested element.
C14_AppendNeverShrinks ==
    (Returned /\ Appended)
        => /\ result.tag = "Ok"
           /\ result.bytes >= size_of(WithoutLast(input))

\* a sequence appended to a map of one entry
C14_Witness ==
    /\ Returned
    /\ input.kind = "map"
    /\ Len(input.entries) = 2
    /\ input.entries[2].value.kind = "seq"
    /\ Len(input.entries[2].value.elems) = 2
    /\ result.bytes = size_of(WithoutLast(input)) + 11

\* C15: through one computation the byte counter never decreases: after
\* every protocol call it is at least what it was before the call.
C15_CounterNeverDecreases ==
    [][serializer'.bytes >= serializer.bytes]_vars

\* the end call of the struct of test_struct raises the counter by one, from
\* what the calls before it have counted
C15_Witness ==
    /\ input = test_struct
    /\ last.call = "SerializeStruct_end"
    /\ last.before.bytes = 24
    /\ serializer.bytes = 25

\* C16: computations that run at once, their protocol calls interleaved in
\* any order, over different values or over the same value, each return
\* what they return alone, and no call of one changes the counter or the
\* cursor of the other.
C16_ConcurrentAsAlone ==
    /\ [](Returned => result = [tag |-> "Ok", bytes |-> size_of(input)])
    /\ [](other.pc = "returned"
            => other.result = [tag |-> "Ok", bytes |-> size_of(other.input)])
    /\ [][/\ other' # other => serializer' = serializer
          /\ serializer' # serializer => other' = other]_vars

\* both computations are inside a collection of the same value, one with
\* the cursor set and one with the cursor cleared
C16_Witness ==
    /\ pc = "serializing"
    /\ other.pc = "serializing"
    /\ other.input = input
    /\ stack # <<>>
    /\ other.stack # <<>>
    /\ serializer.bytes > other.serializer.bytes
    /\ other.serializer.bytes > 0
    /\ other.serializer.start_collection
    /\ ~serializer.start_collection

\* C17: a string and a byte buffer of n bytes are counted as 2 + n whatever
\* they hold: the empty string counts 2, and a string or buffer holding a
\* quote, a backslash or a control character is counted lower than the
\* text the reference writes for it.
C17_StringsUnescaped ==
    /\ (Returned /\ input.kind \in {"str", "bytes"})
            => /\ result = [tag |-> "Ok", bytes |-> 2 + Len(input.s)]
               /\ input.s = <<>> => result.bytes = 2
               /\ (\E i \in 1..Len(input.s) : NeedsEscape(input.s[i]))
                    => result.bytes < Len(Quoted(input.s))
    /\ last.call \in {"str", "bytes"}
            => serializer.bytes
                = last.before.bytes + 2 + Len(Dispatch(last.node).s)

\* a\b is counted as 5, and the reference writes the 6 bytes "a\\b"
C17_Witness ==
    /\ Returned
    /\ input = Str(<<"a", "\\", "b">>)
    /\ result = [tag |-> "Ok", bytes |-> 5]
    /\ Len(Quoted(input.s)) = 6

\* the last call was the first element call of its collection: the
\* collection had passed no element when the call was made
FirstOfItsCollection == Head(last.written.frames).first

SequenceOpens == {"seq", "tuple", "tuple_struct", "tuple_variant"}

SequenceElementCalls ==
    {"SerializeSeq_serialize_element", "SerializeTuple_serialize_element",
     "SerializeTupleStruct_serialize_field",
     "SerializeTupleVariant_serialize_field"}

\* C18: in every sequence, tuple, tuple struct and tuple variant the open
\* call sets the cursor; the first element call finds it set, charges no
\* comma and clears it; every later element call of the same collection
\* finds it cleared and charges one comma; the close call charges the
\* closing bracket (and a tuple variant's closing brace with it).  No
\* element call charges a comma having found the cursor set.
C18_CommaCursorOrder ==
    /\ last.call \in SequenceOpens => serializer.start_collection
    /\ (last.call \in SequenceElementCalls /\ FirstOfItsCollection)
            => /\ last.before.start_collection
               /\ serializer.bytes = last.before.bytes
               /\ ~serializer.start_collection
    /\ (last.call \in SequenceElementCalls /\ ~FirstOfItsCollection)
            => /\ ~last.before.start_collection
               /\ serializer.bytes = last.before.bytes + COMMA_SIZE
               /\ ~serializer.start_collection
    /\ last.call \in {"SerializeSeq_end", "SerializeTuple_end",
                      "SerializeTupleStruct_end"}
            => serializer.bytes = last.before.bytes + BRACKET_SIZE
    /\ last.call = "SerializeTupleVariant_end"
            => serializer.bytes
                = last.before.bytes + BRACKET_SIZE + BRACE_SIZE

\* the second element call of Tuple(1, 2), after the first element has been
\* counted
C18_Witness ==
    /\ input = test_enum_Tuple
    /\ last.call = "SerializeTupleVariant_serialize_field"
    /\ ~FirstOfItsCollection
    /\ last.before = [bytes |-> 11, start_collection |-> FALSE]
    /\ serializer = [bytes |-> 12, start_collection |-> FALSE]

NamedFieldCalls ==
    {"SerializeStruct_serialize_field",
     "SerializeStructVariant_serialize_field"}

\* the calls that may charge a comma
CommaCalls ==
    SequenceElementCalls \cup NamedFieldCalls
    \cup {"SerializeMap_serialize_key"}

\* what the last call has charged beyond the name and colon of its field
CommaCharged ==
    serializer.bytes - last.before.bytes
    - (IF last.call \in NamedFieldCalls
       THEN QUOTES_SIZE + Len(Head(last.node.frame.rest).name) + COLON_SIZE
       ELSE 0)

\* C19: with one cursor for all nesting levels every collection is charged
\* one comma for each of its elements but the first, max(0, n - 1) for n
\* elements: an element, key or field call charges no comma when it is the
\* first of its own collection and one comma otherwise, whatever has been
\* opened and closed since the collection was opened.
C19_CommasPerCollection ==
    last.call \in CommaCalls
        => CommaCharged = (IF FirstOfItsCollection THEN 0 ELSE COMMA_SIZE)

\* the element after an empty nested sequence is charged its comma
C19_Witness ==
    /\ last.call = "SerializeSeq_serialize_element"
    /\ Len(stack) = 2
    /\ input.kind = "seq"
    /\ Len(input.elems) = 2
    /\ input.elems[1] = SeqOf(<<>>)
    /\ ~FirstOfItsCollection
    /\ CommaCharged = 1
    /\ serializer.bytes = 4

\* no character of s needs an escape
NoEscape(s) == \A i \in 1..Len(s) : ~NeedsEscape(s[i])

\* a Value with no scalar that is counted otherwise than it is written: no
\* integer of 19 digits and no sign (C2), no character needing an escape
\* (C17), every timestamp at millisecond precision (C9), and no key of a
\* map that is not a string (C24)
RECURSIVE FaithfulValue(_)
FaithfulValue(value) ==
    CASE value.t = "Integer" -> Lt(value.v, Pow10(18))
      [] value.t = "Bytes" -> NoEscape(value.s)
      [] value.t = "Timestamp" ->
            value.nanos # 0 /\ value.nanos % 1000000 = 0
      [] value.t = "Array" ->
            \A i \in 1..Len(value.elems) : FaithfulValue(value.elems[i])
      [] value.t = "Object" ->
            \A i \in 1..Len(value.entries) :
                /\ NoEscape(value.entries[i].key)
                /\ FaithfulValue(value.entries[i].value)
      [] OTHER -> TRUE

\* the same of a value of the protocol
RECURSIVE Faithful(_)
Faithful(node) ==
    CASE node.kind = "JsonEncodedValue" -> FaithfulValue(node.value)
      [] node.kind = "i64" -> Lt(node.v, Pow10(18))
      [] node.kind \in {"str", "bytes"} -> NoEscape(node.s)
      [] node.kind \in {"some", "newtype_struct", "newtype_variant"} ->
            Faithful(node.inner)
      [] node.kind \in SequenceOpens ->
            \A i \in 1..Len(node.elems) : Faithful(node.elems[i])
      [] node.kind = "map" ->
            \A i \in 1..Len(node.entries) :
                /\ node.entries[i].key.kind = "str"
                /\ Faithful(node.entries[i].key)
                /\ Faithful(node.entries[i].value)
      [] node.kind \in {"struct", "struct_variant"} ->
            \A i \in 1..Len(node.fields) : Faithful(node.fields[i].value)
      [] OTHER -> TRUE

\* a protocol call has been made and size_of has not yet returned
AfterACall == pc = "serializing" /\ last.call # "no call"

\* the closing braces of the newtype variants that are still open
RECURSIVE OpenVariants(_)
OpenVariants(frames) ==
    IF frames = <<>> THEN 0
    ELSE Head(frames).closing + OpenVariants(Tail(frames))

LastVariant == Dispatch(last.node).variant

\* what the last call has added to the counter
Charged == serializer.bytes - last.before.bytes

\* C21 as claimed: serialize_tuple_variant charges the leading brace, the
\* colon and the trailing brace (with the quoted tag and the opening
\* bracket), and the closing call charges the closing bracket only.
C21_AsClaimed ==
    /\ last.call = "tuple_variant"
            => Charged = BRACES_SIZE + COLON_SIZE + BRACKET_SIZE
                         + QUOTES_SIZE + Len(LastVariant)
    /\ last.call = "SerializeTupleVariant_end" => Charged = BRACKET_SIZE

\* C21: serialize_tuple_variant charges the leading brace, the quoted tag,
\* the colon and the opening bracket, len(tag) + 5, and sets the cursor;
\* the trailing brace is charged by the closing call, with the closing
\* bracket: 2.
C21_TupleVariantFraming ==
    /\ last.call = "tuple_variant"
            => /\ Charged = BRACE_SIZE + COLON_SIZE + BRACKET_SIZE
                            + QUOTES_SIZE + Len(LastVariant)
               /\ serializer.start_collection
    /\ last.call = "SerializeTupleVariant_end"
            => /\ Charged = BRACKET_SIZE + BRACE_SIZE
               /\ ~serializer.start_collection

\* the closing call of Tuple(1, 2) takes the counter from 13 to 15
C21_Witness ==
    /\ input = test_enum_Tuple
    /\ last.call = "SerializeTupleVariant_end"
    /\ last.before.bytes = 13
    /\ serializer.bytes = 15

\* C22: serialize_struct_variant charges the two opening braces, the colon
\* and the quoted tag, len(tag) + 5, and no closing brace; the closing call
\* charges the two closing braces, 2; while the struct variant is open the
\* counter holds nothing the reference has not written, but the closing
\* braces of newtype variants around it.
C22_StructVariantFraming ==
    /\ last.call = "struct_variant"
            => Charged = BRACE_SIZE + BRACE_SIZE + COLON_SIZE
                         + QUOTES_SIZE + Len(LastVariant)
    /\ last.call = "SerializeStructVariant_end"
            => Charged = BRACE_SIZE + BRACE_SIZE
    /\ (Open("struct_variant") /\ Faithful(input))
            => serializer.bytes
                = reference.bytes + OpenVariants(reference.frames)

\* the closing call of Struct{a: 1} takes the counter from 16 to 18
C22_Witness ==
    /\ input = test_enum_Struct
    /\ last.call = "SerializeStructVariant_end"
    /\ last.before.bytes = 16
    /\ last.written.bytes = 16
    /\ serializer.bytes = 18

\* C23: no entry point makes an error: a protocol call fails only when the
\* value it is made for cannot be serialized, whatever the counter and the
\* cursor are, so an error that size_of returns was made by such a value
\* and size_of succeeds for every value that holds none.
C23_NoErrorOfItsOwn ==
    /\ [][(pc = "serializing" /\ pc' = "failed")
            => Calls("error") /\ Top.node = Unserializable]_vars
    /\ []((pc = "failed" \/ result.tag = "Err")
            => last.call = "error" /\ last.node = Unserializable)
    /\ []((Returned /\ ~Fails(input))
            => result = [tag |-> "Ok", bytes |-> serializer.bytes])

\* size_of has succeeded for a struct variant whose last field is a map
C23_Witness ==
    /\ Returned
    /\ ~Fails(input)
    /\ input.kind = "struct_variant"
    /\ Len(input.fields) = 2
    /\ input.fields[2].value.kind = "map"
    /\ Len(input.fields[2].value.entries) = 2
    /\ result.tag = "Ok"

\* the last call was the scalar call of a key of a map
KeyCounted ==
    /\ pc = "serializing"
    /\ stack # <<>>
    /\ Top.op = "map"
    /\ Top.half = "value"
    /\ last.call \in ScalarKinds

\* C24: a key of a map that is not a string is accepted and charged its own
\* scalar count, with no quotes: the key 1 is charged 1 byte, where the
\* reference writes the 3 bytes "1", and size_of returns Ok.
C24_NonStringKeyUnquoted ==
    /\ KeyCounted => Charged = size_of(last.node)
    /\ (KeyCounted /\ last.node = U32(L(0, 0, 1))) => Charged = 1
    /\ (KeyCounted /\ last.node.kind # "str")
            => /\ Charged = Len(Json(last.node))
               /\ reference.bytes - last.written.bytes = Charged + 1
    /\ (Returned /\ input \in NonStringKeyMaps)
            => /\ result.tag = "Ok"
               /\ result.bytes < Len(Json(input))

\* {1: [1,2]} is counted 9, the key 1 as one byte
C24_Witness ==
    /\ Returned
    /\ input = Map(<<[key |-> U32(L(0, 0, 1)), value |-> seq_of_1_2]>>)
    /\ result = [tag |-> "Ok", bytes |-> 9]
    /\ Len(Json(input)) = 11

EndCalls ==
    {"SerializeSeq_end", "SerializeTuple_end", "SerializeTupleStruct_end",
     "SerializeTupleVariant_end", "SerializeMap_end", "SerializeStruct_end",
     "SerializeStructVariant_end"}

\* the calls that are no collection call
CursorKeepers ==
    ScalarKinds
    \cup {"some", "newtype_struct", "newtype_variant",
          "SerializeMap_serialize_value"}

\* the serializer with the cursor as c
WithCursor(c) == [serializer EXCEPT !.start_collection = c]

\* the call that is about to be made, made on the cursor set and on the
\* cursor cleared: a call that is no collection call leaves the cursor as
\* it is, and an end call leaves it cleared
AboutToKeep ==
    \A c \in BOOLEAN :
        /\ (\E kind \in ScalarKinds : Calls(kind))
                => Serialize(WithCursor(c), Called).start_collection = c
        /\ Calls("newtype_variant")
                => serialize_newtype_variant(WithCursor(c), Called.variant)
                        .start_collection = c
        /\ (Open("map") /\ Top.rest # <<>> /\ Top.half = "value")
                => SerializeMap_serialize_value(WithCursor(c))
                        .start_collection = c
        /\ (pc = "serializing" /\ stack # <<>> /\ Top.op # "value"
                /\ Top.rest = <<>>)
                => ~EndCall(Top.op, WithCursor(c)).start_collection

\* C25: only collection calls touch the cursor: every scalar call, the
\* framing of a newtype variant and the value call of a map leave it as
\* they found it, set or cleared; every close call leaves it cleared; and
\* it is cleared whenever size_of returns.
C25_CursorFrame ==
    /\ last.call \in CursorKeepers
            => serializer.start_collection = last.before.start_collection
    /\ last.call \in EndCalls => ~serializer.start_collection
    /\ AboutToKeep
    /\ Returned => result.tag = "Ok" /\ ~serializer.start_collection

\* the value call of the second entry of a nested map
C25_Witness ==
    /\ last.call = "SerializeMap_serialize_value"
    /\ Len(stack) >= 3
    /\ Len(last.node.frame.rest) = 1
    /\ ~last.before.start_collection
    /\ ~serializer.start_collection
    /\ Charged = COLON_SIZE

====
